---- MODULE Spec2Model ----
(***************************************************************************)
(* A model of retain-rs: the nonce ledger kept by Config, the block-framed *)
(* EncryptingReader / DecryptingWriter pair, the FileManifest, and the     *)
(* upload, download and clean pipelines built from them.                   *)
(***************************************************************************)
EXTENDS Integers, Sequences, FiniteSets, TLC

(***************************************************************************)
(* Program constants                                                       *)
(***************************************************************************)
\* config.rs: const NONCE_PREALLOC_AMOUNT: u128 = 65536
NONCE_PREALLOC_AMOUNT == 65536
\* encryption/mod.rs: pub const BLOCK_LENGTH: usize = 8192
BLOCK_LENGTH == 8192
\* encryption/mod.rs: the 16 of BLOCK_LENGTH-16, the length of the Poly1305 tag
MAC_LENGTH == 16
\* encryption/mod.rs: pub const DATA_LENGTH: usize = BLOCK_LENGTH-16
DATA_LENGTH == BLOCK_LENGTH - MAC_LENGTH
\* reader.rs: the 16 bytes of self.nonce.to_be_bytes() that open the stream
HEADER_LENGTH == 16
MASK_SIZE == 64
UPLOAD_ATTEMPTS == 5
DOWNLOAD_ATTEMPTS == 5

(***************************************************************************)
(* Bounds of the model                                                     *)
(***************************************************************************)
\* consume_nonces calls made in one run of the nonce-ledger specification
MaxCalls == 3
\* crashes followed by a from_file reload
MaxReloads == 1
\* pre-allocation blocks already on disk when the program first starts
MaxInitBlocks == 1
\* plaintext lengths tried by the encryption specification: q * DATA_LENGTH + r
\* with q up to MaxFrames and r within Margin of a frame boundary
MaxFrames == 3
Margin == 1
MaxPathLen == 2
MaxEntries == 3
MaxStamp == 2
NumWorkers == 2
MaxFailures == 1
MaxPeriodic == 1

VARIABLES
    \* ---- Config (config.rs) ----
    nonce_ctr,      \* Config.nonce_ctr   (in memory only, #[serde(skip)])
    nonce_alloc,    \* Config.nonce_alloc (in memory)
    disk_alloc,     \* nonce_alloc as stored in the config file
    running,        \* the process holding the Config is alive
    epoch,          \* number of from_file loads so far (history)
    handed,         \* history of consume_nonces returns: [start, amount, epoch, base, disk]
    lost,           \* history: the loads of the Config in which save() has failed
    \* ---- one encrypt / decrypt round trip (encryption/test.rs) ----
    rd,             \* the EncryptingReader
    wr,             \* the DecryptingWriter
    enc_pc,         \* "read", "write", "flush", "done", "panic"
    enc_buf,        \* buf[..n] as the last read call filled it
    enc_bufsize,    \* length of the buffer handed to read
    enc_len,        \* length of the plaintext
    enc_start,      \* start_nonce given to wrap
    enc_alloc,      \* allocated_nonces given to wrap
    enc_total,      \* bytes returned by the reader so far
    enc_eof,        \* the reader has returned Ok(0)
    enc_out,        \* every byte the reader has returned (kept when only reading)
    \* ---- a FileManifest under a sequence of calls (manifest.rs) ----
    mf_on,          \* a manifest is under test
    mf_mask,        \* FileManifest.mask
    mf_files,       \* FileManifest.files
    \* ---- backup upload and clean (upload.rs, clean.rs) ----
    proc,           \* "idle", "upload", "aborted", "clean", "cleaned"
    fs,             \* local files: path -> modified time, 0 where there is none
    do_encrypt,     \* config.encrypt
    remote_id,      \* FileManifest.remote_id (0 is "not_yet_set")
    disk_manifest,  \* the local manifest.json: [mask, files, remote_id]
    remote,         \* the bucket: a set of file versions [name, id, ts]
    file_queue,     \* file_queue: Vec<String> behind its Mutex
    busy_threads,   \* AtomicUsize busy_threads
    wk,             \* per upload worker: [pc, path, mtime, name, attempts, start, allocated]
    sup,            \* the supervisor thread: [pc, active, filesize]
    rx,             \* interrupt messages sent and not yet received
    ranges,         \* history: [start, n] of every range reserved in the run
    reserved,       \* history: number of reservations made in the run
    fails_left,     \* uploads the store may still fail
    periodic_left,  \* five-minute periods that may still elapse
    cl,             \* clean: [pc, mode, force, fast, queue, mask_list, ...]
    \* ---- backup download (download.rs); it also uses proc, fs, mf_files,
    \*      busy_threads, wk, sup, rx and fails_left ----
    allow_open_file,    \* AtomicBool allow_open_file
    open_files,         \* AtomicUsize open_files
    half,               \* output files created and not yet written in full
    \* ---- the Mutexes of backup upload (upload.rs) ----
    lk_pc,              \* per thread of the run: the statement it is at
    mutex,              \* per Mutex: the threads holding its guard (none or one)
    \* ---- backup download, retrieval of the manifest (download.rs 99-177) ----
    rt_pc,              \* the statement the main thread is at
    rt_encrypt,         \* config.encrypt
    response,           \* what b2_download_file_by_name returned
    manifest_json,      \* the file manifest.json
    manifest_json_old,  \* the file manifest.json.old
    manifest,           \* the FileManifest bound at line 107
    rt_previous,        \* history: manifest.json as the command found it
    \* ---- the backup list (filelist.rs) ----
    fl                  \* [pc, rules, tree, files] of one build_file_list call

ledgerVars == <<nonce_ctr, nonce_alloc, disk_alloc, running, epoch, handed, lost>>

encVars == <<rd, wr, enc_pc, enc_buf, enc_bufsize, enc_len, enc_start, enc_alloc,
             enc_total, enc_eof, enc_out>>

manVars == <<mf_on, mf_mask, mf_files>>

upVars == <<proc, fs, do_encrypt, remote_id, disk_manifest, remote,
            file_queue, busy_threads, wk, sup, rx, ranges, reserved, fails_left,
            periodic_left, cl>>

dlVars == <<allow_open_file, open_files, half>>

lockVars == <<lk_pc, mutex>>

retrVars == <<rt_pc, rt_encrypt, response, manifest_json, manifest_json_old,
              manifest, rt_previous>>

listVars == <<fl>>

vars == <<ledgerVars, encVars, manVars, upVars, dlVars, lockVars, retrVars,
          listVars>>

\* what the actions of one specification leave alone
LedgerFrame   == UNCHANGED <<encVars, manVars, upVars, dlVars, lockVars, retrVars,
                              listVars>>
EncFrame      == UNCHANGED <<ledgerVars, manVars, upVars, dlVars, lockVars, retrVars,
                              listVars>>
ManifestFrame == UNCHANGED <<ledgerVars, encVars, upVars, dlVars, lockVars, retrVars,
                              listVars>>
\* the backup runs use the Config and the FileManifest fields declared above
BackupFrame   == UNCHANGED <<encVars, running, epoch, handed, lost, mf_on, dlVars,
                              lockVars, retrVars,
                              listVars>>
DownloadFrame == UNCHANGED <<ledgerVars, encVars, mf_on, mf_mask, do_encrypt,
                             remote_id, disk_manifest, remote, file_queue, ranges,
                             reserved, periodic_left, cl, lockVars,
                             retrVars, listVars>>

(***************************************************************************)
(* Byte strings.  A buffer of thousands of bytes is kept as a sequence of  *)
(* runs [k, a, from, len]:                                                 *)
(*   k = "d"  bytes from .. from+len-1 of the plaintext (a = 0)            *)
(*   k = "z"  len zero bytes (a = 0, from = 0)                             *)
(*   k = "b"  bytes from .. from+len-1 of the literal byte sequence a      *)
(*   k = "c"  bytes from .. from+len-1 of the AEAD output for a =          *)
(*            [key, nonce, pt]: ciphertext followed by the 16-byte tag     *)
(* Buffers are kept normalised: no empty run, adjacent runs merged.        *)
(***************************************************************************)
Min(x, y) == IF x <= y THEN x ELSE y

Data(from, len) == [k |-> "d", a |-> 0, from |-> from, len |-> len]
Zeros(len)      == [k |-> "z", a |-> 0, from |-> 0, len |-> len]
Bytes(bs)       == [k |-> "b", a |-> bs, from |-> 0, len |-> Len(bs)]

RECURSIVE RLen(_)
RLen(rs) == IF Len(rs) = 0 THEN 0 ELSE Head(rs).len + RLen(Tail(rs))

RECURSIVE RTake(_, _)
RTake(rs, n) ==
    IF n <= 0 \/ Len(rs) = 0 THEN <<>>
    ELSE LET h == Head(rs) IN
         IF h.len <= n THEN <<h>> \o RTake(Tail(rs), n - h.len)
         ELSE <<[h EXCEPT !.len = n]>>

RECURSIVE RDrop(_, _)
RDrop(rs, n) ==
    IF n <= 0 \/ Len(rs) = 0 THEN rs
    ELSE LET h == Head(rs) IN
         IF h.len <= n THEN RDrop(Tail(rs), n - h.len)
         ELSE <<[h EXCEPT !.from = IF h.k = "z" THEN 0 ELSE h.from + n,
                          !.len = h.len - n]>> \o Tail(rs)

RSlice(rs, off, n) == RTake(RDrop(rs, off), n)

Mergeable(r1, r2) ==
    /\ r1.k = r2.k
    /\ \/ r1.k = "z"
       \/ r1.a = r2.a /\ r1.from + r1.len = r2.from

RECURSIVE RNorm(_)
RNorm(rs) ==
    IF Len(rs) = 0 THEN <<>>
    ELSE IF Head(rs).len = 0 THEN RNorm(Tail(rs))
    ELSE LET t == RNorm(Tail(rs)) IN
         IF Len(t) > 0 /\ Mergeable(Head(rs), Head(t))
         THEN <<[Head(rs) EXCEPT !.len = Head(rs).len + Head(t).len]>> \o Tail(t)
         ELSE <<Head(rs)>> \o t

\* dst[off .. off+len(src)) = src   (copy_from_slice / write into a sub-slice)
Overwrite(dst, off, src) ==
    RNorm(RTake(dst, off) \o src \o RDrop(dst, off + RLen(src)))

\* equality of two run records, and of two normalised buffers
RunEq(r1, r2) ==
    /\ r1.k = r2.k
    /\ r1.len = r2.len
    /\ r1.from = r2.from
    /\ r1.a = r2.a

RunsEq(x, y) ==
    /\ Len(x) = Len(y)
    /\ \A i \in DOMAIN x : RunEq(x[i], y[i])

\* the value of byte i (0-based) of a buffer; -1 for a plaintext byte, whose
\* value the model does not fix
RECURSIVE ByteAt(_, _)
ByteAt(rs, i) ==
    LET h == Head(rs) IN
    IF i >= h.len THEN ByteAt(Tail(rs), i - h.len)
    ELSE CASE h.k = "z" -> 0
           [] h.k = "b" -> h.a[h.from + i + 1]
           [] OTHER     -> -1

\* u32::to_be_bytes / u32::from_be_bytes
to_be_bytes32(v) ==
    <<(v \div 16777216) % 256, (v \div 65536) % 256, (v \div 256) % 256, v % 256>>

from_be_bytes32(b) == ((b[1] * 256 + b[2]) * 256 + b[3]) * 256 + b[4]

\* u128::to_be_bytes / u128::from_be_bytes, for counters below 2^31
to_be_bytes128(v) == <<0, 0, 0, 0, 0, 0, 0, 0, 0, 0, 0, 0>> \o to_be_bytes32(v)

RECURSIVE FoldBE(_, _, _)
FoldBE(b, i, acc) == IF i > Len(b) THEN acc ELSE FoldBE(b, i + 1, acc * 256 + b[i])

from_be_bytes128(b) == FoldBE(b, 1, 0)

\* encryption/mod.rs: 8 zero bytes followed by the big-endian counter
nonce_from_u128(number) == <<0, 0, 0, 0, 0, 0, 0, 0>> \o to_be_bytes128(number)

\* XChaCha20Poly1305 encrypt: RLen(pt) + 16 bytes that only the same key and
\* nonce open again
aead_encrypt(key, nonce, pt) ==
    [k |-> "c", a |-> [key |-> key, nonce |-> nonce, pt |-> pt],
     from |-> 0, len |-> RLen(pt) + MAC_LENGTH]

\* XChaCha20Poly1305 decrypt: the tag verifies only on the whole, unmodified
\* output of one encrypt call under the same key and nonce
aead_decrypt(key, nonce, ct) ==
    LET n == RNorm(ct) IN
    IF /\ Len(n) = 1
       /\ n[1].k = "c"
       /\ n[1].from = 0
       /\ n[1].len = RLen(n[1].a.pt) + MAC_LENGTH
       /\ n[1].a.key = key
       /\ n[1].a.nonce = nonce
    THEN [ok |-> TRUE, pt |-> n[1].a.pt]
    ELSE [ok |-> FALSE, pt |-> <<>>]

(***************************************************************************)
(* encryption/mod.rs and encryption/reader.rs: EncryptingReader            *)
(***************************************************************************)

\* mutant of get_nonces_required: the three bytes short of a full frame that
\* force an extra padding frame are not counted
get_nonces_required_no_extra(length) == length \div (BLOCK_LENGTH - 16) + 1

\* mod.rs 38-40: ((length+3)/(BLOCK_LENGTH as u64-16)+1) as u128
get_nonces_required(length) == (length + 3) \div (BLOCK_LENGTH - 16) + 1

\* the size declared to the remote store: 16 + nonces_required * BLOCK_LENGTH
get_encrypted_size(length) == HEADER_LENGTH + get_nonces_required(length) * BLOCK_LENGTH

\* EncryptingReader::wrap over a Cursor holding inner_len plaintext bytes.
\* inner_err is <<>> for an inner reader that never fails and <<k>> for one
\* whose read returns Err once k bytes have been read from it.
wrap(inner_len, key, start_nonce, allocated_nonces) ==
    [inner_len     |-> inner_len,
     inner_pos     |-> 0,
     inner_err     |-> <<>>,
     key           |-> key,
     state         |-> "Nonce",
     nonce         |-> start_nonce,
     nonce_max     |-> start_nonce + allocated_nonces,
     input_buffer  |-> <<Zeros(BLOCK_LENGTH - 16)>>,
     output_buffer |-> <<Zeros(BLOCK_LENGTH)>>,
     read          |-> 0,
     written       |-> 0,
     total_size    |-> 0,
     pad_extra     |-> 0,
     used          |-> <<>>]      \* history: the counters frames were encrypted with

\* lines 43-47: output pending from the last frame
ReadPending(r, n) ==
    LET w == Min(n, BLOCK_LENGTH - r.written) IN
    [res |-> "ok",
     out |-> RSlice(r.output_buffer, r.written, w),
     r   |-> [r EXCEPT !.written = r.written + w]]

\* mutant of the check of lines 50-52: `>` for `>=`
OutOfNoncesLate(r) == r.nonce > r.nonce_max /\ r.state # "Done"

\* lines 50-52: the check that panics with "Ran out of allocated nonces!"
OutOfNonces(r) == r.nonce >= r.nonce_max /\ r.state # "Done"

\* lines 57-62: the header.  write_all into a buffer shorter than 16 bytes
\* fails with WriteZero and leaves the state at Nonce.
ReadNonce(r, n) ==
    LET bytes == to_be_bytes128(r.nonce) IN
    IF n < Len(bytes)
    THEN [res |-> "err", out |-> <<>>, r |-> r]
    ELSE [res |-> "ok", out |-> <<Bytes(bytes)>>, r |-> [r EXCEPT !.state = "Data"]]

\* encrypt input_buffer with the current counter into output_buffer and hand
\* out what fits the caller's buffer (lines 79-86, 112-121, 136-144)
EmitFrame(r, n, state) ==
    LET ciphertext == aead_encrypt(r.key, nonce_from_u128(r.nonce), r.input_buffer)
        w          == Min(n, BLOCK_LENGTH)
    IN  [res |-> "ok",
         out |-> RTake(<<ciphertext>>, w),
         r   |-> [r EXCEPT !.nonce = r.nonce + 1,
                           !.used = Append(r.used, r.nonce),
                           !.output_buffer = <<ciphertext>>,
                           !.written = w,
                           !.total_size = r.total_size + BLOCK_LENGTH,
                           !.state = state]]

\* mutant of the Pad state: the frame that completes a block with 1 to 3
\* zero bytes ends the stream, no full padding frame follows
ReadPadNoExtraFrame(r, n) ==
    LET pad_amount == IF r.pad_extra = 0 THEN DATA_LENGTH - r.read ELSE DATA_LENGTH IN
    IF pad_amount < 4
    THEN EmitFrame([r EXCEPT !.pad_extra = pad_amount,
                             !.input_buffer =
                                 Overwrite(r.input_buffer, r.read, <<Zeros(pad_amount)>>),
                             !.read = 0], n, "Done")
    ELSE EmitFrame([r EXCEPT !.input_buffer =
                                 Overwrite(Overwrite(r.input_buffer, r.read,
                                                     <<Zeros(pad_amount - 4)>>),
                                           DATA_LENGTH - 4,
                                           <<Bytes(to_be_bytes32(pad_amount + r.pad_extra))>>)],
                   n, "Done")

\* mutant of the Pad state: the pad length written counts the bytes of the
\* last frame only
ReadPadOwnFrameOnly(r, n) ==
    LET pad_amount == IF r.pad_extra = 0 THEN DATA_LENGTH - r.read ELSE DATA_LENGTH IN
    IF pad_amount < 4
    THEN EmitFrame([r EXCEPT !.pad_extra = pad_amount,
                             !.input_buffer =
                                 Overwrite(r.input_buffer, r.read, <<Zeros(pad_amount)>>),
                             !.read = 0], n, "Pad")
    ELSE EmitFrame([r EXCEPT !.input_buffer =
                                 Overwrite(Overwrite(r.input_buffer, r.read,
                                                     <<Zeros(pad_amount - 4)>>),
                                           DATA_LENGTH - 4,
                                           <<Bytes(to_be_bytes32(pad_amount))>>)],
                   n, "Done")

\* lines 88-145: the Pad state
ReadPad(r, n) ==
    LET pad_amount == IF r.pad_extra = 0 THEN DATA_LENGTH - r.read ELSE DATA_LENGTH IN
    IF pad_amount < 4
    THEN \* lines 110-122: complete this frame with 1 to 3 zero bytes, stay in Pad
         EmitFrame([r EXCEPT !.pad_extra = pad_amount,
                             !.input_buffer =
                                 Overwrite(r.input_buffer, r.read, <<Zeros(pad_amount)>>),
                             !.read = 0], n, "Pad")
    ELSE \* lines 127-144: zero fill, big-endian pad_num in the last four bytes
         EmitFrame([r EXCEPT !.input_buffer =
                                 Overwrite(Overwrite(r.input_buffer, r.read,
                                                     <<Zeros(pad_amount - 4)>>),
                                           DATA_LENGTH - 4,
                                           <<Bytes(to_be_bytes32(pad_amount + r.pad_extra))>>)],
                   n, "Done")

\* line 67: self.inner.read(&mut self.input_buffer[self.read..]) with
\* `space` bytes left in the buffer
InnerRead(r, space) ==
    IF r.inner_err # <<>> /\ r.inner_pos >= r.inner_err[1]
    THEN [res |-> "err", n |-> 0]
    ELSE LET end == IF r.inner_err # <<>>
                    THEN Min(r.inner_len, r.inner_err[1]) ELSE r.inner_len
         IN  [res |-> "ok", n |-> Min(space, end - r.inner_pos)]

\* lines 66-72: while let Ok(n) = self.inner.read(..): input_buffer is filled
\* until it is full, the inner reader returns Ok(0), or it returns Err; the
\* loop is left the same way in the three cases
FillInput(r) ==
    LET x == InnerRead(r, DATA_LENGTH)
        m == IF x.res = "ok" THEN x.n ELSE 0
    IN
    [r EXCEPT !.read = m,
              !.inner_pos = r.inner_pos + m,
              !.input_buffer = Overwrite(r.input_buffer, 0, <<Data(r.inner_pos, m)>>)]

\* EncryptingReader::read(buf) for a buf of n bytes: the result ("ok", "err"
\* or "panic"), the bytes put into buf, and the reader afterwards
RECURSIVE read(_, _)
read(r, n) ==
    IF r.written # 0 /\ r.written # BLOCK_LENGTH THEN ReadPending(r, n)
    ELSE IF OutOfNonces(r) THEN [res |-> "panic", out |-> <<>>, r |-> r]
    ELSE CASE r.state = "Nonce" -> ReadNonce(r, n)
           [] r.state = "Data" ->
                LET f == FillInput(r) IN
                IF f.read # DATA_LENGTH
                THEN read([f EXCEPT !.state = "Pad"], n)      \* lines 74-77
                ELSE EmitFrame(f, n, "Data")                  \* lines 79-86
           [] r.state = "Pad" -> ReadPad(r, n)
           [] OTHER -> [res |-> "ok", out |-> <<>>, r |-> r]   \* Done: Ok(0)

(***************************************************************************)
(* encryption/writer.rs: DecryptingWriter                                  *)
(***************************************************************************)

\* DecryptingWriter::target
target(key) ==
    [key          |-> key,
     state        |-> "Nonce",
     nonce        |-> 0,
     input_buffer |-> <<Zeros(3 * BLOCK_LENGTH)>>,
     received     |-> 0,
     target       |-> <<>>]       \* what the inner writer has been given

\* the big-endian u32 in the last four bytes of a decrypted frame
\* (lines 88-90, 101-103); -1 when those bytes are plaintext of unknown value
pad_amount_of(plaintext) ==
    LET n == RLen(plaintext)
        b == [i \in 1..4 |-> ByteAt(plaintext, n - 5 + i)]
    IN  IF \E i \in 1..4 : b[i] < 0 THEN -1 ELSE from_be_bytes32(b)

\* self.target.write_all(bytes)
Emit(w, bytes) == [w EXCEPT !.target = RNorm(w.target \o bytes)]

\* lines 36-49: the first 16 bytes are the initial counter
WriteNonce(w, buf) ==
    LET read_len == Min(RLen(buf), 16 - w.received)
        ib       == Overwrite(w.input_buffer, w.received, RTake(buf, read_len))
        received == w.received + read_len
    IN  IF received = 16
        THEN [res |-> "ok", n |-> read_len,
              w |-> [w EXCEPT !.input_buffer = ib,
                              !.nonce = from_be_bytes128(
                                            [i \in 1..16 |-> ByteAt(ib, i - 1)]),
                              !.state = "Data",
                              !.received = 0]]
        ELSE [res |-> "ok", n |-> read_len,
              w |-> [w EXCEPT !.input_buffer = ib, !.received = received]]

\* mutant of WriteFullBuffer: with three frames buffered the first two are
\* decrypted and written
WriteFullBufferTwo(w, read_len) ==
    LET d1 == aead_decrypt(w.key, nonce_from_u128(w.nonce),
                           RTake(w.input_buffer, BLOCK_LENGTH))
        d2 == aead_decrypt(w.key, nonce_from_u128(w.nonce + 1),
                           RSlice(w.input_buffer, BLOCK_LENGTH, BLOCK_LENGTH))
    IN
    IF ~d1.ok \/ ~d2.ok THEN [res |-> "panic", n |-> 0, w |-> w]
    ELSE [res |-> "ok", n |-> read_len,
          w |-> [Emit(Emit(w, d1.pt), d2.pt) EXCEPT
                     !.nonce = w.nonce + 2,
                     !.input_buffer = RNorm(RDrop(w.input_buffer, 2 * BLOCK_LENGTH)
                                            \o RTake(w.input_buffer, 2 * BLOCK_LENGTH)),
                     !.received = w.received - 2 * BLOCK_LENGTH]]

\* lines 62-73: three frames are buffered, the first one is decrypted, written
\* and rotated out
WriteFullBuffer(w, read_len) ==
    LET d == aead_decrypt(w.key, nonce_from_u128(w.nonce),
                          RTake(w.input_buffer, BLOCK_LENGTH)) IN
    IF ~d.ok THEN [res |-> "panic", n |-> 0, w |-> w]
    ELSE [res |-> "ok", n |-> read_len,
          w |-> [Emit(w, d.pt) EXCEPT
                     !.nonce = w.nonce + 1,
                     !.input_buffer = RNorm(RDrop(w.input_buffer, BLOCK_LENGTH)
                                            \o RTake(w.input_buffer, BLOCK_LENGTH)),
                     !.received = w.received - BLOCK_LENGTH]]

\* mutant of the two-frame tail: a pad_amount of DATA_LENGTH or more is not
\* recognised as a full padding frame
WriteTailTwoNoFullPad(w, plaintext1, plaintext2, pad_amount) ==
    IF pad_amount > DATA_LENGTH
    THEN [res |-> "panic", n |-> 0, w |-> w]
    ELSE [res |-> "ok", n |-> 0,
          w |-> Emit(Emit(w, plaintext1), RTake(plaintext2, DATA_LENGTH - pad_amount))]

\* lines 104-110: the last two frames, pad_amount read from the second
WriteTailTwo(w, plaintext1, plaintext2, pad_amount) ==
    IF pad_amount >= DATA_LENGTH
    THEN IF pad_amount - DATA_LENGTH > DATA_LENGTH
         THEN [res |-> "panic", n |-> 0, w |-> w]      \* slice end out of range
         ELSE [res |-> "ok", n |-> 0,
               w |-> Emit(w, RTake(plaintext1, DATA_LENGTH - (pad_amount - DATA_LENGTH)))]
    ELSE [res |-> "ok", n |-> 0,
          w |-> Emit(Emit(w, plaintext1), RTake(plaintext2, DATA_LENGTH - pad_amount))]

\* lines 74-114: a zero-length write ends the input
WriteFinish(w) ==
    LET w1 == [w EXCEPT !.state = "Done"] IN
    IF w.received % BLOCK_LENGTH # 0 THEN [res |-> "panic", n |-> 0, w |-> w1]
    ELSE IF w.received = BLOCK_LENGTH THEN
        LET d == aead_decrypt(w.key, nonce_from_u128(w.nonce),
                              RTake(w.input_buffer, BLOCK_LENGTH)) IN
        IF ~d.ok THEN [res |-> "panic", n |-> 0, w |-> w1]
        ELSE LET pad_amount == pad_amount_of(d.pt) IN
             IF pad_amount < 0 THEN [res |-> "undetermined", n |-> 0, w |-> w1]
             ELSE IF pad_amount > DATA_LENGTH
             THEN [res |-> "panic", n |-> 0, w |-> w1]  \* slice end out of range
             ELSE [res |-> "ok", n |-> 0,
                   w |-> Emit([w1 EXCEPT !.nonce = w.nonce + 1],
                              RTake(d.pt, DATA_LENGTH - pad_amount))]
    ELSE IF w.received = 2 * BLOCK_LENGTH THEN
        LET d1 == aead_decrypt(w.key, nonce_from_u128(w.nonce),
                               RTake(w.input_buffer, BLOCK_LENGTH))
            d2 == aead_decrypt(w.key, nonce_from_u128(w.nonce + 1),
                               RSlice(w.input_buffer, BLOCK_LENGTH, BLOCK_LENGTH))
        IN
        IF ~d1.ok \/ ~d2.ok THEN [res |-> "panic", n |-> 0, w |-> w1]
        ELSE LET pad_amount == pad_amount_of(d2.pt) IN
             IF pad_amount < 0 THEN [res |-> "undetermined", n |-> 0, w |-> w1]
             ELSE WriteTailTwo([w1 EXCEPT !.nonce = w.nonce + 2], d1.pt, d2.pt, pad_amount)
    ELSE [res |-> "panic", n |-> 0, w |-> w1]           \* "Invalid amount of data!"

\* lines 51-117: the Data state
WriteData(w, buf) ==
    LET read_len == Min(RLen(buf), 3 * BLOCK_LENGTH - w.received)
        w1 == [w EXCEPT !.input_buffer =
                            Overwrite(w.input_buffer, w.received, RTake(buf, read_len)),
                        !.received = w.received + read_len]
    IN  IF w1.received = 3 * BLOCK_LENGTH THEN WriteFullBuffer(w1, read_len)
        ELSE IF read_len = 0 THEN WriteFinish(w1)
        ELSE [res |-> "ok", n |-> read_len, w |-> w1]

\* DecryptingWriter::write(buf): the result, the count written, the writer
\* afterwards
write(w, buf) ==
    CASE w.state = "Nonce" -> WriteNonce(w, buf)
      [] w.state = "Data"  -> WriteData(w, buf)
      [] OTHER             -> [res |-> "ok", n |-> 0, w |-> w]

\* std::io::Write::write_all: write until buf is empty; Ok(0) is WriteZero
RECURSIVE write_all(_, _)
write_all(w, buf) ==
    IF RLen(buf) = 0 THEN [res |-> "ok", w |-> w]
    ELSE LET x == write(w, buf) IN
         IF x.res # "ok" THEN [res |-> x.res, w |-> x.w]
         ELSE IF x.n = 0 THEN [res |-> "err", w |-> x.w]
         ELSE write_all(x.w, RDrop(buf, x.n))

\* DecryptingWriter::flush: self.write(&[])
flush(w) == LET x == write(w, <<>>) IN [res |-> x.res, w |-> x.w]

(***************************************************************************)
(* manifest.rs: FileManifest.  A path or a remote name is a string, kept   *)
(* as the sequence of its character codes; files is Vec<FileEntry>.        *)
(***************************************************************************)

\* str::cmp: lexicographic on the bytes, a proper prefix is Less
StrCmp(x, y) ==
    LET differ == {i \in 1..Min(Len(x), Len(y)) : x[i] # y[i]} IN
    IF differ = {}
    THEN (IF Len(x) < Len(y) THEN "Less"
          ELSE IF Len(x) > Len(y) THEN "Greater" ELSE "Equal")
    ELSE LET i == CHOOSE i \in differ : \A j \in differ : i <= j
         IN  IF x[i] < y[i] THEN "Less" ELSE "Greater"

\* slice::binary_search_by over keys[1..n] (0-based result as in Rust):
\* Ok(idx) as [found |-> TRUE, idx], Err(idx) as [found |-> FALSE, idx]
RECURSIVE BinarySearchFrom(_, _, _, _)
BinarySearchFrom(keys, key, left, right) ==
    IF left >= right THEN [found |-> FALSE, idx |-> left]
    ELSE LET mid == left + (right - left) \div 2
             cmp == StrCmp(keys[mid + 1], key)
         IN  CASE cmp = "Equal"   -> [found |-> TRUE, idx |-> mid]
               [] cmp = "Less"    -> BinarySearchFrom(keys, key, mid + 1, right)
               [] cmp = "Greater" -> BinarySearchFrom(keys, key, left, mid)

binary_search_by(keys, key) == BinarySearchFrom(keys, key, 0, Len(keys))

PathsOf(files) == [i \in DOMAIN files |-> files[i].path]
MasksOf(files) == [i \in DOMAIN files |-> files[i].mask]

\* Vec::insert(n, e) and Vec::remove(n), n 0-based
VecInsert(v, n, e) == SubSeq(v, 1, n) \o <<e>> \o SubSeq(v, n + 1, Len(v))
VecRemove(v, n)    == SubSeq(v, 1, n) \o SubSeq(v, n + 2, Len(v))

\* lines 58-70: the remote name of a new entry: `fresh` is what the random
\* generator yields when names are masked; otherwise the path without its
\* leading '/' (the build is not for Windows)
new_mask(mask, path, fresh) == IF mask THEN fresh ELSE Tail(path)

\* mutant of get_mask: a new entry is pushed at the end of files
get_mask_push(files, mask, path, timestamp, fresh) ==
    LET s == binary_search_by(PathsOf(files), path) IN
    IF s.found
    THEN [files |-> files,
          ret |-> <<files[s.idx + 1].timestamp, files[s.idx + 1].mask>>]
    ELSE LET e == [path |-> path, timestamp |-> timestamp,
                   mask |-> new_mask(mask, path, fresh)]
         IN  [files |-> Append(files, e), ret |-> <<timestamp, e.mask>>]

\* mutant of get_mask: a call on a known path stores the timestamp it is given
get_mask_restamp(files, mask, path, timestamp, fresh) ==
    LET s == binary_search_by(PathsOf(files), path) IN
    IF s.found
    THEN [files |-> [files EXCEPT ![s.idx + 1].timestamp = timestamp],
          ret |-> <<timestamp, files[s.idx + 1].mask>>]
    ELSE LET e == [path |-> path, timestamp |-> timestamp,
                   mask |-> new_mask(mask, path, fresh)]
         IN  [files |-> VecInsert(files, s.idx, e), ret |-> <<timestamp, e.mask>>]

\* lines 53-79: FileManifest::get_mask
get_mask(files, mask, path, timestamp, fresh) ==
    LET s == binary_search_by(PathsOf(files), path) IN
    IF s.found
    THEN [files |-> files,
          ret |-> <<files[s.idx + 1].timestamp, files[s.idx + 1].mask>>]
    ELSE LET e == [path |-> path, timestamp |-> timestamp,
                   mask |-> new_mask(mask, path, fresh)]
         IN  [files |-> VecInsert(files, s.idx, e), ret |-> <<timestamp, e.mask>>]

\* lines 82-87: FileManifest::update_timestamp
update_timestamp(files, path, timestamp) ==
    LET s == binary_search_by(PathsOf(files), path) IN
    IF s.found THEN [files EXCEPT ![s.idx + 1].timestamp = timestamp] ELSE files

\* lines 90-95: FileManifest::get_from_path; <<>> is None
get_from_path(files, path) ==
    LET s == binary_search_by(PathsOf(files), path) IN
    IF s.found THEN <<files[s.idx + 1].timestamp, files[s.idx + 1].mask>> ELSE <<>>

\* lines 99-105: FileManifest::get_from_mask: the first entry with that mask
get_from_mask(files, m) ==
    IF \E i \in DOMAIN files : files[i].mask = m
    THEN LET i == CHOOSE i \in DOMAIN files :
                      /\ files[i].mask = m
                      /\ \A j \in 1..(i - 1) : files[j].mask # m
         IN  <<files[i].timestamp, files[i].path>>
    ELSE <<>>

\* lines 109-115: FileManifest::remove_path
remove_path(files, path) ==
    LET s == binary_search_by(PathsOf(files), path) IN
    IF s.found THEN VecRemove(files, s.idx) ELSE files

\* lines 119-125: FileManifest::remove_mask: a binary search on the masks of
\* a vector that is ordered by path
remove_mask(files, m) ==
    LET s == binary_search_by(MasksOf(files), m) IN
    IF s.found THEN VecRemove(files, s.idx) ELSE files

(***************************************************************************)
(* Config::consume_nonces, Config::save, Config::from_file                 *)
(***************************************************************************)

\* line 83: self.nonce_ctr += amount  (mutant: the counter is not advanced)
NextCtrStuck(ctr, amount) == ctr

NextCtr(ctr, amount) == ctr + amount

\* mutant of the while loop of lines 86-89: a single `if`, one block at most
GrowAllocOnce(ctr, alloc) ==
    IF ctr >= alloc THEN alloc + NONCE_PREALLOC_AMOUNT ELSE alloc

\* lines 86-89: while self.nonce_ctr >= self.nonce_alloc { nonce_alloc += PREALLOC }
RECURSIVE GrowAlloc(_, _)
GrowAlloc(ctr, alloc) ==
    IF ctr >= alloc THEN GrowAlloc(ctr, alloc + NONCE_PREALLOC_AMOUNT) ELSE alloc

\* The whole of consume_nonces as a function of the Config it is called on:
\* the start it returns, the Config fields afterwards, and whether save() ran.
consume_nonces(ctr, alloc, amount) ==
    LET ctr2   == NextCtr(ctr, amount)
        alloc2 == GrowAlloc(ctr2, alloc)
    IN  [start |-> ctr, ctr |-> ctr2, alloc |-> alloc2, write |-> alloc2 # alloc]

\* Config::save: the config file now holds this nonce_alloc
save(alloc) == alloc

\* mutant of on_save_error: the result of std::fs::write is dropped
on_save_error_ignored == "return"

\* line 55: std::fs::write(..).unwrap(): an Err panics inside consume_nonces
on_save_error == "panic"

\* amounts a caller asks for: nothing, little, around one block, several blocks
Amounts ==
    {0, 1, NONCE_PREALLOC_AMOUNT, 2 * NONCE_PREALLOC_AMOUNT + 5}

\* the state of a Config no operation has touched
LedgerIdle ==
    /\ nonce_ctr = 0 /\ nonce_alloc = 0 /\ disk_alloc = 0
    /\ running = FALSE /\ epoch = 0 /\ handed = <<>> /\ lost = {}

\* no round trip is under way
EncIdle ==
    /\ rd = <<>> /\ wr = <<>> /\ enc_pc = "idle" /\ enc_buf = <<>>
    /\ enc_bufsize = 0 /\ enc_len = 0 /\ enc_start = 0 /\ enc_alloc = 0
    /\ enc_total = 0 /\ enc_eof = FALSE /\ enc_out = <<>>

\* no manifest is under test
ManifestIdle == mf_on = FALSE /\ mf_mask = FALSE /\ mf_files = <<>>

\* no backup run is under way
BackupIdle ==
    /\ proc = "idle" /\ fs = <<>> /\ do_encrypt = FALSE /\ remote_id = 0
    /\ disk_manifest = <<>> /\ remote = {} /\ file_queue = <<>>
    /\ busy_threads = 0 /\ wk = <<>> /\ sup = <<>> /\ rx = 0 /\ ranges = {}
    /\ reserved = 0 /\ fails_left = 0 /\ periodic_left = 0 /\ cl = <<>>

\* no download run is under way
DownloadIdle == allow_open_file = FALSE /\ open_files = 0 /\ half = {}

\* no thread is followed through its locks
LocksIdle == lk_pc = <<>> /\ mutex = <<>>

\* no backup list is being evaluated
FileListIdle == fl = <<>>

\* no manifest is being retrieved
RetrieveIdle ==
    /\ rt_pc = "idle" /\ rt_encrypt = FALSE /\ response = <<>>
    /\ manifest_json = <<>> /\ manifest_json_old = <<>> /\ manifest = <<>>
    /\ rt_previous = <<>>

LedgerInit ==
    /\ EncIdle /\ ManifestIdle /\ BackupIdle /\ DownloadIdle
    /\ LocksIdle /\ RetrieveIdle /\ FileListIdle
    /\ disk_alloc \in {k * NONCE_PREALLOC_AMOUNT : k \in 0..MaxInitBlocks}
    /\ nonce_alloc = disk_alloc      \* from_file: parsed from the file
    /\ nonce_ctr = disk_alloc        \* from_file line 70
    /\ running = TRUE
    /\ epoch = 0
    /\ handed = <<>>
    /\ lost = {}

\* base of the running epoch: nonce_ctr as from_file left it
EpochBase == IF \E i \in DOMAIN handed : handed[i].epoch = epoch
             THEN handed[CHOOSE i \in DOMAIN handed : handed[i].epoch = epoch].base
             ELSE nonce_ctr

\* consume_nonces(amount) runs to its return
ConsumeNonces ==
    /\ LedgerFrame
    /\ running
    /\ Len(handed) < MaxCalls
    /\ \E amount \in Amounts :
        LET r == consume_nonces(nonce_ctr, nonce_alloc, amount) IN
        /\ nonce_ctr' = r.ctr
        /\ nonce_alloc' = r.alloc
        /\ disk_alloc' = IF r.write THEN save(r.alloc) ELSE disk_alloc
        /\ handed' = Append(handed, [start |-> r.start, amount |-> amount,
                                     epoch |-> epoch, base |-> EpochBase,
                                     disk |-> disk_alloc'])
    /\ UNCHANGED <<running, epoch, lost>>

\* the process dies inside consume_nonces, after save() and before the return:
\* the file is written, no start reaches the caller
ConsumeCrashAfterSave ==
    /\ LedgerFrame
    /\ running
    /\ \E amount \in Amounts :
        LET r == consume_nonces(nonce_ctr, nonce_alloc, amount) IN
        /\ r.write
        /\ disk_alloc' = save(r.alloc)
    /\ running' = FALSE
    /\ nonce_ctr' = 0 /\ nonce_alloc' = 0     \* the memory of the process is gone
    /\ UNCHANGED <<epoch, handed, lost>>

\* consume_nonces(amount) has grown nonce_alloc and std::fs::write returns Err
\* in save(): the file keeps what it held; by on_save_error the call panics
\* (the Config, behind its poisoned Mutex, hands out nothing more) or returns
ConsumeSaveFails ==
    /\ LedgerFrame
    /\ running
    /\ Len(handed) < MaxCalls
    /\ \E amount \in Amounts :
        LET r == consume_nonces(nonce_ctr, nonce_alloc, amount) IN
        /\ r.write
        /\ IF on_save_error = "panic"
           THEN /\ running' = FALSE
                /\ nonce_ctr' = 0 /\ nonce_alloc' = 0
                /\ UNCHANGED handed
           ELSE /\ running' = running
                /\ nonce_ctr' = r.ctr /\ nonce_alloc' = r.alloc
                /\ handed' = Append(handed, [start |-> r.start, amount |-> amount,
                                            epoch |-> epoch, base |-> EpochBase,
                                            disk |-> disk_alloc])
    /\ lost' = lost \cup {epoch}
    /\ UNCHANGED <<disk_alloc, epoch>>

\* the process dies between two Config operations (kill, power loss, abort())
Crash ==
    /\ LedgerFrame
    /\ running
    /\ running' = FALSE
    /\ nonce_ctr' = 0 /\ nonce_alloc' = 0     \* the memory of the process is gone
    /\ UNCHANGED <<disk_alloc, epoch, handed, lost>>

\* Config::from_file on the next start of the program
FromFile ==
    /\ LedgerFrame
    /\ ~running
    /\ epoch < MaxReloads
    /\ nonce_alloc' = disk_alloc
    /\ nonce_ctr' = disk_alloc
    /\ running' = TRUE
    /\ epoch' = epoch + 1
    /\ UNCHANGED <<disk_alloc, handed, lost>>

LedgerNext ==
    \/ ConsumeNonces
    \/ ConsumeCrashAfterSave
    \/ ConsumeSaveFails
    \/ Crash
    \/ FromFile

SpecLedger == LedgerInit /\ [][LedgerNext]_vars

(***************************************************************************)
(* The round trip of encryption/test.rs (test_bulk_encrypt_decrypt): read  *)
(* the EncryptingReader through a fixed buffer, write_all every chunk to   *)
(* the DecryptingWriter, flush at the end.                                 *)
(***************************************************************************)
\* test.rs: let mut buf = [0u8; 4096]
TEST_BUF == 4096
\* test.rs: let mut out = [0u8; 32768]
LARGE_BUF == 32768

Residues == (0..Margin) \cup {DATA_LENGTH \div 2}
            \cup ((DATA_LENGTH - 4 - Margin)..(DATA_LENGTH - 1))

Lengths == {q * DATA_LENGTH + r : q \in 0..MaxFrames, r \in Residues}

Keys == {"an example very very secret key.", "another 32 byte long secret key."}

StartNonces == {0, NONCE_PREALLOC_AMOUNT - 1}

BufSizes == {TEST_BUF, LARGE_BUF}

\* what a caller may allocate: what get_nonces_required asks for, one more,
\* one less, and nothing
Allocations(length) ==
    {0, get_nonces_required(length) - 1, get_nonces_required(length),
     get_nonces_required(length) + 1}

EncInit ==
    /\ LedgerIdle /\ ManifestIdle /\ BackupIdle /\ DownloadIdle
    /\ LocksIdle /\ RetrieveIdle /\ FileListIdle
    /\ enc_len \in Lengths
    /\ enc_start \in StartNonces
    /\ enc_alloc \in Allocations(enc_len)
    /\ enc_bufsize \in BufSizes
    /\ \E key \in Keys :
         /\ rd = wrap(enc_len, key, enc_start, enc_alloc)
         /\ wr = target(key)
    /\ enc_pc = "read"
    /\ enc_buf = <<>>
    /\ enc_total = 0
    /\ enc_eof = FALSE
    /\ enc_out = <<>>

\* while let Ok(n) = reader.read(&mut buf) { if n != 0 {...} else { break } }
EncRead ==
    /\ EncFrame
    /\ enc_pc = "read"
    /\ LET x == read(rd, enc_bufsize) IN
       /\ rd' = x.r
       /\ enc_buf' = x.out
       /\ enc_total' = enc_total + RLen(x.out)
       /\ enc_eof' = (x.res = "ok" /\ RLen(x.out) = 0)
       /\ enc_pc' = CASE x.res = "panic" -> "panic"
                      [] x.res = "err" -> "flush"
                      [] RLen(x.out) = 0 -> "flush"
                      [] OTHER -> "write"
    /\ UNCHANGED <<wr, enc_bufsize, enc_len, enc_start, enc_alloc, enc_out>>

\* writer.write_all(&mut buf[..n]).unwrap()
EncWrite ==
    /\ EncFrame
    /\ enc_pc = "write"
    /\ LET y == write_all(wr, enc_buf) IN
       /\ wr' = y.w
       /\ enc_pc' = IF y.res = "ok" THEN "read" ELSE "panic"
    /\ UNCHANGED <<rd, enc_buf, enc_bufsize, enc_len, enc_start, enc_alloc,
                   enc_total, enc_eof, enc_out>>

\* writer.flush().unwrap()
EncFlush ==
    /\ EncFrame
    /\ enc_pc = "flush"
    /\ LET y == flush(wr) IN
       /\ wr' = y.w
       /\ enc_pc' = IF y.res = "ok" THEN "done" ELSE "panic"
    /\ UNCHANGED <<rd, enc_buf, enc_bufsize, enc_len, enc_start, enc_alloc,
                   enc_total, enc_eof, enc_out>>

EncNext ==
    \/ EncRead
    \/ EncWrite
    \/ EncFlush

SpecEnc == EncInit /\ [][EncNext]_vars

(***************************************************************************)
(* The same round trip over an inner reader that fails in mid-stream: its  *)
(* read returns Err once it has handed out the bytes before some offset    *)
(* below its length (a file on a failing disk or on a dropped mount).      *)
(***************************************************************************)

ErrorOffsets(length) ==
    {k \in {0, 1, DATA_LENGTH - 1, DATA_LENGTH, length - 1} : k >= 0 /\ k < length}

ReadErrInit ==
    /\ LedgerIdle /\ ManifestIdle /\ BackupIdle /\ DownloadIdle
    /\ LocksIdle /\ RetrieveIdle /\ FileListIdle
    /\ enc_len \in Lengths
    /\ enc_start \in StartNonces
    /\ enc_alloc = get_nonces_required(enc_len)
    /\ enc_bufsize \in BufSizes
    /\ \E key \in Keys : \E k \in ErrorOffsets(enc_len) :
         /\ rd = [wrap(enc_len, key, enc_start, enc_alloc) EXCEPT !.inner_err = <<k>>]
         /\ wr = target(key)
    /\ enc_pc = "read"
    /\ enc_buf = <<>>
    /\ enc_total = 0
    /\ enc_eof = FALSE
    /\ enc_out = <<>>

SpecReadErr == ReadErrInit /\ [][EncNext]_vars

(***************************************************************************)
(* The read loop of encryption/test.rs (test_output_length_small) with     *)
(* output buffers of any size: while let Ok(n) = reader.read(&mut buf),    *)
(* the bytes of every call being appended to what was read before.         *)
(***************************************************************************)

\* sizes of the buffer handed to read: below, at and above the 16 bytes of
\* the header, not dividing BLOCK_LENGTH, one frame, and more than a frame
SmallBufSizes ==
    {1, HEADER_LENGTH - 1, HEADER_LENGTH, HEADER_LENGTH + 1, 100, TEST_BUF + 1,
     BLOCK_LENGTH, LARGE_BUF}

\* everything a reader returns until its first Ok(0), Err or panic when it is
\* read through a buffer of n bytes
RECURSIVE ReadToEnd(_, _, _)
ReadToEnd(r, n, acc) ==
    LET x == read(r, n) IN
    IF x.res # "ok" \/ RLen(x.out) = 0 THEN acc
    ELSE ReadToEnd(x.r, n, RNorm(acc \o x.out))

StreamInit ==
    /\ LedgerIdle /\ ManifestIdle /\ BackupIdle /\ DownloadIdle
    /\ LocksIdle /\ RetrieveIdle /\ FileListIdle
    /\ enc_len \in Lengths
    /\ enc_start \in StartNonces
    /\ enc_alloc = get_nonces_required(enc_len)
    /\ enc_bufsize \in SmallBufSizes
    /\ rd = wrap(enc_len, CHOOSE key \in Keys : TRUE, enc_start, enc_alloc)
    /\ wr = <<>>
    /\ enc_pc = "read"
    /\ enc_buf = <<>>
    /\ enc_total = 0
    /\ enc_eof = FALSE
    /\ enc_out = <<>>

\* one reader.read(&mut buf): Ok(n) with n > 0 is appended, Ok(0) and Err end
\* the loop
StreamRead ==
    /\ EncFrame
    /\ enc_pc = "read"
    /\ LET x == read(rd, enc_bufsize) IN
       /\ rd' = x.r
       /\ enc_buf' = x.out
       /\ enc_out' = RNorm(enc_out \o x.out)
       /\ enc_total' = enc_total + RLen(x.out)
       /\ enc_eof' = (x.res = "ok" /\ RLen(x.out) = 0)
       /\ enc_pc' = CASE x.res = "panic" -> "panic"
                      [] x.res = "err" -> "failed"
                      [] RLen(x.out) = 0 -> "done"
                      [] OTHER -> "read"
    /\ UNCHANGED <<wr, enc_bufsize, enc_len, enc_start, enc_alloc>>

StreamNext == StreamRead

SpecStream == StreamInit /\ [][StreamNext]_vars

(***************************************************************************)
(* Claims about the nonce ledger                                           *)
(***************************************************************************)

(***************************************************************************)
(* A FileManifest driven by arbitrary calls, starting empty                *)
(* (manifest.rs, tests test_masking and test_nomask)                       *)
(***************************************************************************)

\* sequences of length 1..n over the set S
RECURSIVE SeqsUpTo(_, _)
SeqsUpTo(S, n) ==
    IF n = 0 THEN {}
    ELSE LET shorter == SeqsUpTo(S, n - 1)
         IN  {<<c>> : c \in S} \cup shorter \cup {Append(t, c) : t \in shorter, c \in S}

\* absolute paths "/a", "/b", "/aa", ...: '/' is 47, 'a' is 97, 'b' is 98
Paths == {<<47>> \o t : t \in SeqsUpTo({97, 98}, MaxPathLen)}

\* modification times in milliseconds
Stamps == 1..MaxStamp

\* what sample_iter(Alphanumeric).take(MASK_SIZE) can yield: strings of
\* MASK_SIZE alphanumerics, here told apart by their first character
\* ('0', 'A', 'c', 'z') so that they sort before, between and after the
\* path characters
RandomMasks == {[i \in 1..MASK_SIZE |-> IF i = 1 THEN c ELSE 48] : c \in {48, 65, 99, 122}}

\* names the generator may return next: it does not repeat a name in use
FreshMasks(files) == RandomMasks \ {files[i].mask : i \in DOMAIN files}

\* every remote name an entry can carry
AllMasks == RandomMasks \cup {Tail(p) : p \in Paths}

ManifestInit ==
    /\ LedgerIdle /\ EncIdle /\ BackupIdle /\ DownloadIdle
    /\ LocksIdle /\ RetrieveIdle /\ FileListIdle
    /\ mf_on = TRUE
    /\ mf_mask \in BOOLEAN
    /\ mf_files = <<>>

ManGetMask ==
    /\ ManifestFrame
    /\ mf_on
    /\ \E p \in Paths, t \in Stamps :
         /\ get_from_path(mf_files, p) = <<>> => Len(mf_files) < MaxEntries
         /\ \E fresh \in (IF mf_mask /\ get_from_path(mf_files, p) = <<>>
                          THEN FreshMasks(mf_files) ELSE {<<>>}) :
               mf_files' = get_mask(mf_files, mf_mask, p, t, fresh).files
    /\ UNCHANGED <<mf_on, mf_mask>>

ManUpdateTimestamp ==
    /\ ManifestFrame
    /\ mf_on
    /\ \E p \in Paths, t \in Stamps : mf_files' = update_timestamp(mf_files, p, t)
    /\ UNCHANGED <<mf_on, mf_mask>>

ManRemovePath ==
    /\ ManifestFrame
    /\ mf_on
    /\ \E p \in Paths : mf_files' = remove_path(mf_files, p)
    /\ UNCHANGED <<mf_on, mf_mask>>

ManRemoveMask ==
    /\ ManifestFrame
    /\ mf_on
    /\ \E m \in AllMasks : mf_files' = remove_mask(mf_files, m)
    /\ UNCHANGED <<mf_on, mf_mask>>

ManifestNext ==
    \/ ManGetMask
    \/ ManUpdateTimestamp
    \/ ManRemovePath
    \/ ManRemoveMask

SpecManifest == ManifestInit /\ [][ManifestNext]_vars


(***************************************************************************)
(* backup upload (subcommands/backup/upload.rs): the workers and the       *)
(* supervisor thread of one run, and the store they upload to.  The store  *)
(* keeps file versions: an upload adds a version with a new file id,       *)
(* b2_delete_file_version removes the version with the given name and id.  *)
(***************************************************************************)

Workers == 1..NumWorkers

\* the files of the backup list: "/a" and "/b"
UpPaths == {p \in Paths : Len(p) = 2}

\* "manifest.json"
MANIFEST_NAME == <<109, 97, 110, 105, 102, 101, 115, 116, 46, 106, 115, 111, 110>>

\* metadata.len() of a local file: the files of the list fill one frame and
\* need a second one for the padding
file_len(path) == (Len(path) - 1) * DATA_LENGTH

\* metadata("manifest.json").len(): the JSON text grows with the entries
manifest_len(files) == 64 + Len(files) * (MASK_SIZE + 64)

\* FileManifest::to_file: what manifest.json holds afterwards
to_file(mask, files, id) == [mask |-> mask, files |-> files, remote_id |-> id]

\* a thread that holds no file
WorkerIdle == [pc |-> "pop", path |-> <<>>, mtime |-> 0, name |-> <<>>,
               attempts |-> 0, start |-> 0, allocated |-> 0]

\* names present in the bucket
RemoteNames == {o.name : o \in remote}

\* info.file_id of a new version of name: an id no version of that name has
\* and the manifest does not remember
new_id(name) ==
    LET ids == {o.id : o \in {v \in remote : v.name = name}}
                  \cup (IF name = MANIFEST_NAME THEN {remote_id} ELSE {})
    IN  1 + (IF ids = {} THEN 0 ELSE CHOOSE i \in ids : \A j \in ids : j <= i)

\* names the random generator may yield for a new entry during a run
FreshUploadMasks == FreshMasks(mf_files) \ RemoteNames

\* a manifest built by get_mask calls for the paths p with stamp[p] > 0,
\* the remote name of p being name[p] when names are masked
RECURSIVE BuildManifest(_, _, _, _)
BuildManifest(todo, mask, stamp, name) ==
    IF todo = {} THEN <<>>
    ELSE LET p == CHOOSE p \in todo : TRUE
             rest == BuildManifest(todo \ {p}, mask, stamp, name)
         IN  IF stamp[p] = 0 THEN rest
             ELSE get_mask(rest, mask, p, stamp[p], name[p]).files

\* the two ways of giving "/a" and "/b" random names: in path order or not
MaskAssignments ==
    LET lo == [i \in 1..MASK_SIZE |-> IF i = 1 THEN 65 ELSE 48]
        hi == [i \in 1..MASK_SIZE |-> IF i = 1 THEN 99 ELSE 48]
    IN  {[p \in UpPaths |-> IF p = <<47, 97>> THEN lo ELSE hi],
         [p \in UpPaths |-> IF p = <<47, 97>> THEN hi ELSE lo]}

\* all orders of the elements of a set
RECURSIVE Orders(_)
Orders(S) ==
    IF S = {} THEN {<<>>}
    ELSE UNION {{<<x>> \o t : t \in Orders(S \ {x})} : x \in S}

\* filelist::build_file_list: the files of the list, here in path order
build_file_list(S) ==
    CHOOSE q \in Orders(S) :
        \A i \in 1..(Len(q) - 1) : StrCmp(q[i], q[i + 1]) = "Less"

\* the versions a bucket may hold when a run starts: the manifest, one per
\* file under its remote name, and an object of no file of the list
InitObjects(files) ==
    {[name |-> MANIFEST_NAME, id |-> 1, ts |-> 0]}
    \cup {[name |-> files[i].mask, id |-> 1 + i, ts |-> files[i].timestamp] :
             i \in DOMAIN files}
    \cup {[name |-> <<97, 97>>, id |-> 1 + MaxEntries + 1, ts |-> 1]}

\* start of `backup upload`: config and manifest.json loaded, file list built
\* (upload.rs lines 24-148).  mtimes: the modified times the files may have
\* (0: no file); stamps: the timestamps manifest entries may have (0: no
\* entry); any_remote: the bucket holds any objects, or exactly those the
\* manifest tells of; troubles: pairs of the number of uploads the store may
\* fail and the number of five-minute periods the run may outlast
BackupInit(mtimes, stamps, names, any_remote, troubles) ==
    /\ EncIdle /\ DownloadIdle
    /\ LocksIdle /\ RetrieveIdle /\ FileListIdle
    /\ running = FALSE /\ epoch = 0 /\ handed = <<>> /\ lost = {} /\ mf_on = FALSE
    /\ nonce_ctr = 0 /\ nonce_alloc = 0 /\ disk_alloc = 0
    /\ proc = "upload"
    /\ fs \in [UpPaths -> mtimes]
    /\ do_encrypt \in BOOLEAN
    /\ mf_mask \in BOOLEAN
    /\ \E stamp \in [UpPaths -> stamps], name \in names :
          mf_files = BuildManifest(UpPaths, mf_mask, stamp, name)
    /\ IF any_remote
       THEN remote \in SUBSET InitObjects(mf_files)
       ELSE remote = {o \in InitObjects(mf_files) :
                         \/ o.name = MANIFEST_NAME /\ mf_files # <<>>
                         \/ \E i \in DOMAIN mf_files : o.name = mf_files[i].mask}
    /\ remote_id = IF MANIFEST_NAME \in RemoteNames THEN 1 ELSE 0
    /\ disk_manifest = to_file(mf_mask, mf_files, remote_id)
    /\ file_queue = build_file_list({p \in UpPaths : fs[p] > 0})
    /\ busy_threads = NumWorkers
    /\ wk = [w \in Workers |-> WorkerIdle]
    /\ sup = [pc |-> "wait", active |-> 0, filesize |-> 0]
    /\ rx = 0
    /\ ranges = {}
    /\ reserved = 0
    /\ \E t \in troubles : fails_left = t[1] /\ periodic_left = t[2]
    /\ cl = <<>>

\* mutant of attempt_start: a retry keeps the range of the first attempt
attempt_start_first(held, attempts, got) == IF attempts = 0 THEN got ELSE held

\* lines 295, 312-317: the reservation is made inside the retry loop, so the
\* start an attempt wraps its reader with is the one its own call returned
attempt_start(held, attempts, got) == got

\* lines 312-317 and 193-198: consume_nonces(req) under the Config lock
Reserve(req) ==
    LET r == consume_nonces(nonce_ctr, nonce_alloc, req) IN
    /\ nonce_ctr' = r.ctr
    /\ nonce_alloc' = r.alloc
    /\ disk_alloc' = IF r.write THEN save(r.alloc) ELSE disk_alloc

\* lines 322-326 and 199-203: EncryptingReader::wrap(file, key, start, n)
\* (the worker reserves the range also when encryption is off)
Wrapped(start, n) ==
    /\ ranges' = ranges \cup {[start |-> start, n |-> n]}
    /\ reserved' = reserved + 1

\* ---- the upload workers, lines 240-357; one action per critical section ----

\* lines 244-271: pop a path (None: busy_threads.fetch_sub(1) and leave),
\* then read its metadata; a path without metadata is skipped
WorkerPop ==
    /\ BackupFrame
    /\ proc = "upload"
    /\ \E w \in Workers :
         /\ wk[w].pc = "pop"
         /\ IF file_queue = <<>>
            THEN /\ busy_threads' = busy_threads - 1
                 /\ wk' = [wk EXCEPT ![w].pc = "exit"]
                 /\ UNCHANGED file_queue
            ELSE LET path == file_queue[Len(file_queue)] IN
                 /\ file_queue' = SubSeq(file_queue, 1, Len(file_queue) - 1)
                 /\ wk' = IF fs[path] = 0 THEN wk
                          ELSE [wk EXCEPT ![w] = [WorkerIdle EXCEPT
                                   !.pc = "lookup", !.path = path, !.mtime = fs[path]]]
                 /\ UNCHANGED busy_threads
    /\ UNCHANGED <<nonce_ctr, nonce_alloc, disk_alloc, mf_mask, mf_files, proc, fs,
                   do_encrypt, remote_id, disk_manifest, remote, sup, rx,
                   ranges, reserved, fails_left, periodic_left, cl>>

\* mutant of WorkerLookup: a file as old as its entry is uploaded again
WorkerLookupNotOlder ==
    /\ BackupFrame
    /\ proc = "upload"
    /\ \E w \in Workers :
         /\ wk[w].pc = "lookup"
         /\ LET t == get_from_path(mf_files, wk[w].path)
                do_upload == IF t = <<>> THEN TRUE ELSE wk[w].mtime >= t[1]
            IN  wk' = [wk EXCEPT ![w] = IF do_upload THEN [@ EXCEPT !.pc = "stamp"]
                                        ELSE WorkerIdle]
    /\ UNCHANGED <<nonce_ctr, nonce_alloc, disk_alloc, mf_mask, mf_files, proc, fs,
                   do_encrypt, remote_id, disk_manifest, remote, file_queue,
                   busy_threads, sup, rx, ranges, reserved, fails_left,
                   periodic_left, cl>>

\* lines 274-284: do_upload = no entry, or modified_time > stored timestamp
WorkerLookup ==
    /\ BackupFrame
    /\ proc = "upload"
    /\ \E w \in Workers :
         /\ wk[w].pc = "lookup"
         /\ LET t == get_from_path(mf_files, wk[w].path)
                do_upload == IF t = <<>> THEN TRUE ELSE wk[w].mtime > t[1]
            IN  wk' = [wk EXCEPT ![w] = IF do_upload THEN [@ EXCEPT !.pc = "stamp"]
                                        ELSE WorkerIdle]
    /\ UNCHANGED <<nonce_ctr, nonce_alloc, disk_alloc, mf_mask, mf_files, proc, fs,
                   do_encrypt, remote_id, disk_manifest, remote, file_queue,
                   busy_threads, sup, rx, ranges, reserved, fails_left,
                   periodic_left, cl>>

\* line 285: manifest.lock().update_timestamp(&path, modified_time)
WorkerStamp ==
    /\ BackupFrame
    /\ proc = "upload"
    /\ \E w \in Workers :
         /\ wk[w].pc = "stamp"
         /\ mf_files' = update_timestamp(mf_files, wk[w].path, wk[w].mtime)
         /\ wk' = [wk EXCEPT ![w].pc = "mask"]
    /\ UNCHANGED <<nonce_ctr, nonce_alloc, disk_alloc, mf_mask, proc, fs,
                   do_encrypt, remote_id, disk_manifest, remote, file_queue,
                   busy_threads, sup, rx, ranges, reserved, fails_left,
                   periodic_left, cl>>

\* line 289: name_in_b2 = manifest.lock().get_mask(&path, modified_time).1
WorkerMask ==
    /\ BackupFrame
    /\ proc = "upload"
    /\ \E w \in Workers :
         /\ wk[w].pc = "mask"
         /\ \E fresh \in (IF mf_mask /\ get_from_path(mf_files, wk[w].path) = <<>>
                          THEN FreshUploadMasks ELSE {<<>>}) :
              LET r == get_mask(mf_files, mf_mask, wk[w].path, wk[w].mtime, fresh) IN
              /\ mf_files' = r.files
              /\ wk' = [wk EXCEPT ![w].pc = "reserve", ![w].name = r.ret[2]]
    /\ UNCHANGED <<nonce_ctr, nonce_alloc, disk_alloc, mf_mask, proc, fs,
                   do_encrypt, remote_id, disk_manifest, remote, file_queue,
                   busy_threads, sup, rx, ranges, reserved, fails_left,
                   periodic_left, cl>>

\* lines 296-302: File::open returns Err (the file is gone or may not be
\* read): break, and the worker goes on to the next path
WorkerOpenErr ==
    /\ BackupFrame
    /\ proc = "upload"
    /\ \E w \in Workers :
         /\ wk[w].pc = "reserve"
         /\ wk' = [wk EXCEPT ![w] = WorkerIdle]
    /\ UNCHANGED <<nonce_ctr, nonce_alloc, disk_alloc, mf_mask, mf_files, proc, fs,
                   do_encrypt, remote_id, disk_manifest, remote, file_queue,
                   busy_threads, sup, rx, ranges, reserved, fails_left,
                   periodic_left, cl>>

\* lines 295-317: an attempt opens the file and reserves its nonces
WorkerReserve ==
    /\ BackupFrame
    /\ proc = "upload"
    /\ \E w \in Workers :
         /\ wk[w].pc = "reserve"
         /\ LET req == get_nonces_required(file_len(wk[w].path))
                got == consume_nonces(nonce_ctr, nonce_alloc, req).start
                start == attempt_start(wk[w].start, wk[w].attempts, got)
            IN  /\ Reserve(req)
                /\ Wrapped(start, req)
                /\ wk' = [wk EXCEPT ![w].pc = "send", ![w].start = start,
                                    ![w].allocated = req]
    /\ UNCHANGED <<mf_mask, mf_files, proc, fs, do_encrypt, remote_id,
                   disk_manifest, remote, file_queue, busy_threads, sup, rx,
                   fails_left, periodic_left, cl>>

\* lines 321-334: b2_upload_file returns Ok: the bucket holds a new version
WorkerSendOk ==
    /\ BackupFrame
    /\ proc = "upload"
    /\ \E w \in Workers :
         /\ wk[w].pc = "send"
         /\ remote' = remote \cup {[name |-> wk[w].name, id |-> new_id(wk[w].name),
                                    ts |-> wk[w].mtime]}
         /\ wk' = [wk EXCEPT ![w] = WorkerIdle]
    /\ UNCHANGED <<nonce_ctr, nonce_alloc, disk_alloc, mf_mask, mf_files, proc, fs,
                   do_encrypt, remote_id, disk_manifest, file_queue, busy_threads,
                   sup, rx, ranges, reserved, fails_left, periodic_left, cl>>

\* mutant of WorkerSendErr: the worker leaves when the last attempt of a
\* file has failed
WorkerSendErrLeaves ==
    /\ BackupFrame
    /\ proc = "upload"
    /\ fails_left > 0
    /\ \E w \in Workers :
         /\ wk[w].pc = "send"
         /\ wk' = [wk EXCEPT ![w] =
                      IF wk[w].attempts = UPLOAD_ATTEMPTS - 1
                      THEN [WorkerIdle EXCEPT !.pc = "exit"]
                      ELSE [@ EXCEPT !.pc = "reserve", !.attempts = @ + 1]]
         /\ busy_threads' = IF wk[w].attempts = UPLOAD_ATTEMPTS - 1
                            THEN busy_threads - 1 ELSE busy_threads
    /\ fails_left' = fails_left - 1
    /\ UNCHANGED <<nonce_ctr, nonce_alloc, disk_alloc, mf_mask, mf_files, proc, fs,
                   do_encrypt, remote_id, disk_manifest, remote, file_queue,
                   sup, rx, ranges, reserved, periodic_left, cl>>

\* lines 335-353: b2_upload_file returns Err: retry, or give the file up
\* after UPLOAD_ATTEMPTS attempts
WorkerSendErr ==
    /\ BackupFrame
    /\ proc = "upload"
    /\ fails_left > 0
    /\ \E w \in Workers :
         /\ wk[w].pc = "send"
         /\ wk' = [wk EXCEPT ![w] =
                      IF wk[w].attempts = UPLOAD_ATTEMPTS - 1 THEN WorkerIdle
                      ELSE [@ EXCEPT !.pc = "reserve", !.attempts = @ + 1]]
    /\ fails_left' = fails_left - 1
    /\ UNCHANGED <<nonce_ctr, nonce_alloc, disk_alloc, mf_mask, mf_files, proc, fs,
                   do_encrypt, remote_id, disk_manifest, remote, file_queue,
                   busy_threads, sup, rx, ranges, reserved, periodic_left, cl>>

\* ---- the supervisor thread, lines 149-233 ----

\* mutant of AfterCheckpoint: the supervisor leaves after any checkpoint
AfterCheckpointLeave == "exit"

\* where the supervisor goes after a checkpoint, lines 227-230
AfterCheckpoint == IF sup.active = 0 THEN "exit" ELSE "wait"

\* the Ctrl-C handler of lines 132-134: tx.send(1)
Interrupt ==
    /\ BackupFrame
    /\ proc = "upload"
    /\ sup.pc # "exit"
    /\ rx = 0
    /\ rx' = 1
    /\ UNCHANGED <<nonce_ctr, nonce_alloc, disk_alloc, mf_mask, mf_files, proc, fs,
                   do_encrypt, remote_id, disk_manifest, remote, file_queue,
                   busy_threads, wk, sup, ranges, reserved, fails_left,
                   periodic_left, cl>>

\* mutant of on_interrupt: the interrupt is taken for a timeout
on_interrupt_sync == "cp_save"

\* lines 157-165: what the supervisor does next when recv_timeout returns Ok
on_interrupt == "int_save"

\* lines 155-157: recv_timeout returns Ok: the interrupt is observed
SupObserveInterrupt ==
    /\ BackupFrame
    /\ proc = "upload"
    /\ sup.pc = "wait"
    /\ rx > 0
    /\ rx' = rx - 1
    /\ sup' = [sup EXCEPT !.pc = on_interrupt]
    /\ UNCHANGED <<nonce_ctr, nonce_alloc, disk_alloc, mf_mask, mf_files, proc, fs,
                   do_encrypt, remote_id, disk_manifest, remote, file_queue,
                   busy_threads, wk, ranges, reserved, fails_left, periodic_left, cl>>

\* line 160: manifest.lock().to_file("manifest.json")
SupSaveLocal ==
    /\ BackupFrame
    /\ proc = "upload"
    /\ sup.pc = "int_save"
    /\ disk_manifest' = to_file(mf_mask, mf_files, remote_id)
    /\ sup' = [sup EXCEPT !.pc = "int_abort"]
    /\ UNCHANGED <<nonce_ctr, nonce_alloc, disk_alloc, mf_mask, mf_files, proc, fs,
                   do_encrypt, remote_id, remote, file_queue, busy_threads,
                   wk, rx, ranges, reserved, fails_left, periodic_left, cl>>

\* line 164: abort(): the process is gone, and with it the threads, the
\* queue, the channel and the Config and FileManifest it held in memory;
\* the files on disk and the bucket stay
SupAbort ==
    /\ BackupFrame
    /\ proc = "upload"
    /\ sup.pc = "int_abort"
    /\ proc' = "aborted"
    /\ wk' = <<>> /\ sup' = <<>> /\ file_queue' = <<>> /\ busy_threads' = 0
    /\ rx' = 0 /\ mf_files' = <<>> /\ remote_id' = 0
    /\ nonce_ctr' = 0 /\ nonce_alloc' = 0
    /\ UNCHANGED <<disk_alloc, mf_mask, fs, do_encrypt, disk_manifest, remote,
                   ranges, reserved, fails_left, periodic_left, cl>>

\* lines 155, 167-172: recv_timeout times out and all workers are done
SupFinalSync ==
    /\ BackupFrame
    /\ proc = "upload"
    /\ sup.pc = "wait"
    /\ rx = 0
    /\ busy_threads = 0
    /\ sup' = [sup EXCEPT !.pc = "cp_save", !.active = busy_threads]
    /\ UNCHANGED <<nonce_ctr, nonce_alloc, disk_alloc, mf_mask, mf_files, proc, fs,
                   do_encrypt, remote_id, disk_manifest, remote, file_queue,
                   busy_threads, wk, rx, ranges, reserved, fails_left,
                   periodic_left, cl>>

\* lines 155, 167-171: recv_timeout times out, workers are busy and five
\* minutes have passed since the last sync
SupPeriodicSync ==
    /\ BackupFrame
    /\ proc = "upload"
    /\ sup.pc = "wait"
    /\ rx = 0
    /\ busy_threads > 0
    /\ periodic_left > 0
    /\ periodic_left' = periodic_left - 1
    /\ sup' = [sup EXCEPT !.pc = "cp_save", !.active = busy_threads]
    /\ UNCHANGED <<nonce_ctr, nonce_alloc, disk_alloc, mf_mask, mf_files, proc, fs,
                   do_encrypt, remote_id, disk_manifest, remote, file_queue,
                   busy_threads, wk, rx, ranges, reserved, fails_left, cl>>

\* mutant of after_cp_save: the previous remote copy is not deleted
after_cp_save_keep == IF do_encrypt THEN "cp_reserve" ELSE "cp_upload"

\* lines 175-190: what follows the local save: the delete of the remote copy
after_cp_save == "cp_delete"

\* lines 175-178: to_file, then the size of manifest.json
SupCpSave ==
    /\ BackupFrame
    /\ proc = "upload"
    /\ sup.pc = "cp_save"
    /\ disk_manifest' = to_file(mf_mask, mf_files, remote_id)
    /\ sup' = [sup EXCEPT !.pc = after_cp_save, !.filesize = manifest_len(mf_files)]
    /\ UNCHANGED <<nonce_ctr, nonce_alloc, disk_alloc, mf_mask, mf_files, proc, fs,
                   do_encrypt, remote_id, remote, file_queue, busy_threads,
                   wk, rx, ranges, reserved, fails_left, periodic_left, cl>>

\* line 190: b2_delete_file_version("manifest.json", remote_id), result unused
SupCpDelete ==
    /\ BackupFrame
    /\ proc = "upload"
    /\ sup.pc = "cp_delete"
    /\ remote' = {o \in remote : ~(o.name = MANIFEST_NAME /\ o.id = remote_id)}
    /\ sup' = [sup EXCEPT !.pc = IF do_encrypt THEN "cp_reserve" ELSE "cp_upload"]
    /\ UNCHANGED <<nonce_ctr, nonce_alloc, disk_alloc, mf_mask, mf_files, proc, fs,
                   do_encrypt, remote_id, disk_manifest, file_queue,
                   busy_threads, wk, rx, ranges, reserved, fails_left,
                   periodic_left, cl>>

\* lines 192-203: the nonces of the manifest upload
SupCpReserve ==
    /\ BackupFrame
    /\ proc = "upload"
    /\ sup.pc = "cp_reserve"
    /\ LET req == get_nonces_required(sup.filesize) IN
         /\ Reserve(req)
         /\ Wrapped(consume_nonces(nonce_ctr, nonce_alloc, req).start, req)
    /\ sup' = [sup EXCEPT !.pc = "cp_upload"]
    /\ UNCHANGED <<mf_mask, mf_files, proc, fs, do_encrypt, remote_id,
                   disk_manifest, remote, file_queue, busy_threads, wk, rx,
                   fails_left, periodic_left, cl>>

\* lines 204-211: the upload returns Ok(info): remote_id = info.file_id
SupCpUploadOk ==
    /\ BackupFrame
    /\ proc = "upload"
    /\ sup.pc = "cp_upload"
    /\ remote' = remote \cup {[name |-> MANIFEST_NAME, id |-> new_id(MANIFEST_NAME),
                                ts |-> 0]}
    /\ remote_id' = new_id(MANIFEST_NAME)
    /\ sup' = [sup EXCEPT !.pc = "cp_store"]
    /\ UNCHANGED <<nonce_ctr, nonce_alloc, disk_alloc, mf_mask, mf_files, proc, fs,
                   do_encrypt, disk_manifest, file_queue, busy_threads, wk, rx,
                   ranges, reserved, fails_left, periodic_left, cl>>

\* lines 212, 227-230: to_file with the new remote_id, then wait or leave
SupCpStore ==
    /\ BackupFrame
    /\ proc = "upload"
    /\ sup.pc = "cp_store"
    /\ disk_manifest' = to_file(mf_mask, mf_files, remote_id)
    /\ sup' = [sup EXCEPT !.pc = AfterCheckpoint]
    /\ UNCHANGED <<nonce_ctr, nonce_alloc, disk_alloc, mf_mask, mf_files, proc, fs,
                   do_encrypt, remote_id, remote, file_queue, busy_threads,
                   wk, rx, ranges, reserved, fails_left, periodic_left, cl>>

\* lines 214-230: the upload returns Err: a message, then wait or leave
SupCpUploadErr ==
    /\ BackupFrame
    /\ proc = "upload"
    /\ sup.pc = "cp_upload"
    /\ fails_left > 0
    /\ fails_left' = fails_left - 1
    /\ sup' = [sup EXCEPT !.pc = AfterCheckpoint]
    /\ UNCHANGED <<nonce_ctr, nonce_alloc, disk_alloc, mf_mask, mf_files, proc, fs,
                   do_encrypt, remote_id, disk_manifest, remote, file_queue,
                   busy_threads, wk, rx, ranges, reserved, periodic_left, cl>>

\* one run of `backup upload` on a store in step with the manifest
UploadInit ==
    BackupInit({MaxStamp}, 0..MaxStamp, {CHOOSE name \in MaskAssignments : TRUE},
               FALSE, {<<MaxFailures, 0>>, <<0, MaxPeriodic>>})

UploadNext ==
    \/ WorkerPop
    \/ WorkerLookup
    \/ WorkerStamp
    \/ WorkerMask
    \/ WorkerOpenErr
    \/ WorkerReserve
    \/ WorkerSendOk
    \/ WorkerSendErr
    \/ Interrupt
    \/ SupObserveInterrupt
    \/ SupSaveLocal
    \/ SupAbort
    \/ SupFinalSync
    \/ SupPeriodicSync
    \/ SupCpSave
    \/ SupCpDelete
    \/ SupCpReserve
    \/ SupCpUploadOk
    \/ SupCpStore
    \/ SupCpUploadErr

SpecUpload == UploadInit /\ [][UploadNext]_vars

\* a run of `backup upload` in which the store fails enough uploads for one
\* file to be given up and another to be retried; no file has an entry yet
RetryInit ==
    BackupInit({MaxStamp}, {0}, {CHOOSE name \in MaskAssignments : TRUE},
               FALSE, {<<UPLOAD_ATTEMPTS + 1, 0>>, <<0, MaxPeriodic>>})

SpecRetry == RetryInit /\ [][UploadNext]_vars

\* a run of `backup upload` over files older than, as old as and newer than
\* their manifest entries, and files without an entry; no upload fails, no
\* interrupt comes and the run is shorter than five minutes
DecideInit ==
    BackupInit(1..MaxStamp, 0..MaxStamp, {CHOOSE name \in MaskAssignments : TRUE},
               FALSE, {<<0, 0>>})

DecideNext ==
    \/ WorkerPop
    \/ WorkerLookup
    \/ WorkerStamp
    \/ WorkerMask
    \/ WorkerOpenErr
    \/ WorkerReserve
    \/ WorkerSendOk
    \/ SupFinalSync
    \/ SupCpSave
    \/ SupCpDelete
    \/ SupCpReserve
    \/ SupCpUploadOk
    \/ SupCpStore

SpecDecide == DecideInit /\ [][DecideNext]_vars

\* start of `backup upload` with a file list in which "/a" occurs twice, as
\* build_file_list returns it when two rules of the backup list cover the
\* file: "/a" exists, "/b" may; the manifest holds entries older than the
\* files or none, the bucket what the manifest tells of; no upload fails
DupInit ==
    /\ EncIdle /\ DownloadIdle /\ LocksIdle /\ RetrieveIdle /\ FileListIdle
    /\ running = FALSE /\ epoch = 0 /\ handed = <<>> /\ lost = {} /\ mf_on = FALSE
    /\ nonce_ctr = 0 /\ nonce_alloc = 0 /\ disk_alloc = 0
    /\ proc = "upload"
    /\ fs \in {f \in [UpPaths -> {0, MaxStamp}] : f[<<47, 97>>] > 0}
    /\ do_encrypt \in BOOLEAN
    /\ mf_mask \in BOOLEAN
    /\ \E stamp \in [UpPaths -> 0..(MaxStamp - 1)] :
          mf_files = BuildManifest(UpPaths, mf_mask, stamp,
                                   CHOOSE name \in MaskAssignments : TRUE)
    /\ remote = {o \in InitObjects(mf_files) :
                    \/ o.name = MANIFEST_NAME /\ mf_files # <<>>
                    \/ \E i \in DOMAIN mf_files : o.name = mf_files[i].mask}
    /\ remote_id = IF MANIFEST_NAME \in RemoteNames THEN 1 ELSE 0
    /\ disk_manifest = to_file(mf_mask, mf_files, remote_id)
    /\ file_queue \in {<<<<47, 97>>>> \o q : q \in Orders({p \in UpPaths : fs[p] > 0})}
    /\ busy_threads = NumWorkers
    /\ wk = [w \in Workers |-> WorkerIdle]
    /\ sup = [pc |-> "wait", active |-> 0, filesize |-> 0]
    /\ rx = 0
    /\ ranges = {}
    /\ reserved = 0
    /\ fails_left = 0 /\ periodic_left = 0
    /\ cl = <<>>

SpecDup == DupInit /\ [][DecideNext]_vars

\* start of the threads of `backup upload` (lines 139-240): as DecideInit,
\* each worker about to ask for its upload URL
TermInit ==
    /\ EncIdle /\ DownloadIdle /\ LocksIdle /\ RetrieveIdle /\ FileListIdle
    /\ running = FALSE /\ epoch = 0 /\ handed = <<>> /\ lost = {} /\ mf_on = FALSE
    /\ nonce_ctr = 0 /\ nonce_alloc = 0 /\ disk_alloc = 0
    /\ proc = "upload"
    /\ fs \in [UpPaths -> {0, MaxStamp}]
    /\ do_encrypt \in BOOLEAN
    /\ mf_mask \in BOOLEAN
    /\ \E stamp \in [UpPaths -> 0..(MaxStamp - 1)] :
          mf_files = BuildManifest(UpPaths, mf_mask, stamp,
                                   CHOOSE name \in MaskAssignments : TRUE)
    /\ remote = {o \in InitObjects(mf_files) :
                    \/ o.name = MANIFEST_NAME /\ mf_files # <<>>
                    \/ \E i \in DOMAIN mf_files : o.name = mf_files[i].mask}
    /\ remote_id = IF MANIFEST_NAME \in RemoteNames THEN 1 ELSE 0
    /\ disk_manifest = to_file(mf_mask, mf_files, remote_id)
    /\ file_queue = build_file_list({p \in UpPaths : fs[p] > 0})
    /\ busy_threads = NumWorkers
    /\ wk = [w \in Workers |-> [WorkerIdle EXCEPT !.pc = "start"]]
    /\ sup = [pc |-> "wait", active |-> 0, filesize |-> 0]
    /\ rx = 0
    /\ ranges = {}
    /\ reserved = 0
    /\ fails_left = 0 /\ periodic_left = 0
    /\ cl = <<>>

\* line 242: b2_get_upload_url(..) returns Ok and the worker enters its loop
WorkerStart ==
    /\ BackupFrame
    /\ proc = "upload"
    /\ \E w \in Workers :
         /\ wk[w].pc = "start"
         /\ wk' = [wk EXCEPT ![w].pc = "pop"]
    /\ UNCHANGED <<nonce_ctr, nonce_alloc, disk_alloc, mf_mask, mf_files, proc, fs,
                   do_encrypt, remote_id, disk_manifest, remote, file_queue,
                   busy_threads, sup, rx, ranges, reserved, fails_left,
                   periodic_left, cl>>

\* line 242: b2_get_upload_url(..) returns Err and unwrap() panics: the
\* thread ends before its loop, busy_threads as it was
WorkerStartPanic ==
    /\ BackupFrame
    /\ proc = "upload"
    /\ \E w \in Workers :
         /\ wk[w].pc = "start"
         /\ wk' = [wk EXCEPT ![w].pc = "panicked"]
    /\ UNCHANGED <<nonce_ctr, nonce_alloc, disk_alloc, mf_mask, mf_files, proc, fs,
                   do_encrypt, remote_id, disk_manifest, remote, file_queue,
                   busy_threads, sup, rx, ranges, reserved, fails_left,
                   periodic_left, cl>>

TermNext ==
    \/ WorkerStart
    \/ WorkerStartPanic
    \/ DecideNext

\* every thread that can take a step takes one in the end, and every call
\* to the store returns
SpecTerm == TermInit /\ [][TermNext]_vars /\ WF_vars(TermNext)

(***************************************************************************)
(* clean (subcommands/clean.rs): the recency check, the prune of the       *)
(* manifest, the hides of fast mode or the sweep of full mode, and the     *)
(* upload of the pruned manifest.  cl.removed, cl.listed and cl.hidden are *)
(* history: the entries the prune removed, what list_all_files returned,   *)
(* and the names b2_hide_file was called with, in call order.  The store is `remote`, the file versions; a hide  *)
(* is kept in cl.hidden only.                                              *)
(***************************************************************************)

\* raze::util::list_all_files: per name the newest version, in name order
list_all_files(bucket) ==
    LET newest == {o \in bucket :
                      \A v \in bucket : v.name = o.name => v.id <= o.id}
    IN  CHOOSE q \in Orders(newest) :
            \A i \in 1..(Len(q) - 1) : StrCmp(q[i].name, q[i + 1].name) = "Less"

\* lines 247-251: the masks of the manifest, sorted
sorted_masks(files) ==
    SortSeq(MasksOf(files), LAMBDA a, b : StrCmp(a, b) = "Less")

\* mutant of without_manifest: manifest.json stays in remote_files
without_manifest_not(remote_files) == remote_files

\* lines 255-261: remote_files without the entry binary_search(&sf) finds
without_manifest(remote_files) ==
    LET names == [i \in DOMAIN remote_files |-> remote_files[i].name]
        s     == binary_search_by(names, MANIFEST_NAME)
    IN  IF s.found THEN VecRemove(remote_files, s.idx) ELSE remote_files

\* pool.scoped has returned in upload.rs: every thread has left its loop
UploadReturned ==
    /\ proc = "upload"
    /\ sup.pc = "exit"
    /\ \A w \in Workers : wk[w].pc = "exit"

\* a clean run that has not looked at anything yet
CleanRun(mode, force, fast, modified_local, info) ==
    [pc |-> "check", mode |-> mode, force |-> force, fast |-> fast,
     modified_local |-> modified_local, info |-> info, queue |-> <<>>,
     mask_list |-> <<>>, listed |-> <<>>, removed |-> <<>>, hidden |-> <<>>]

\* main.rs line 131 and clean.rs lines 56-100: a new process loads the
\* config and manifest.json; `clean delete` in full mode, the recency check
\* of lines 155-186 taken to pass
CleanStart ==
    /\ BackupFrame
    /\ UploadReturned
    /\ proc' = "clean"
    /\ nonce_alloc' = disk_alloc
    /\ nonce_ctr' = disk_alloc
    /\ mf_mask' = disk_manifest.mask
    /\ mf_files' = disk_manifest.files
    /\ remote_id' = disk_manifest.remote_id
    /\ wk' = <<>> /\ sup' = <<>> /\ rx' = 0
    /\ cl' = [CleanRun("delete", FALSE, FALSE, 0, [ok |-> TRUE, modified |-> 0])
                 EXCEPT !.pc = "prune"]
    /\ UNCHANGED <<disk_alloc, fs, do_encrypt, disk_manifest, remote, file_queue,
                   busy_threads, ranges, reserved, fails_left, periodic_left>>

\* mutant of recency_check: a failed b2_get_file_info lets the run go on
recency_check_lenient(force, modified_local, info) ==
    force \/ ~info.ok \/ ~(info.modified > modified_local)

\* lines 155-186: the run goes on when --force is given, or when
\* b2_get_file_info(remote_id) returned info whose modified() is not after
\* the modified time of the local manifest.json
recency_check(force, modified_local, info) ==
    force \/ (info.ok /\ ~(info.modified > modified_local))

\* lines 35-46 and 155-186: `delete` with --fast returns at once; otherwise
\* the recency check either returns or lets the prune start
CleanCheck ==
    /\ BackupFrame
    /\ proc = "clean"
    /\ cl.pc = "check"
    /\ cl' = [cl EXCEPT !.pc =
                 IF cl.mode = "delete" /\ cl.fast THEN "returned"
                 ELSE IF recency_check(cl.force, cl.modified_local, cl.info)
                      THEN "prune" ELSE "returned"]
    /\ UNCHANGED <<nonce_ctr, nonce_alloc, disk_alloc, mf_mask, mf_files, proc, fs,
                   do_encrypt, remote_id, disk_manifest, remote, file_queue,
                   busy_threads, wk, sup, rx, ranges, reserved, fails_left,
                   periodic_left>>

\* line 197: removed_files.push(manifest.files.remove(i).path)
removed_files(removed) == [i \in DOMAIN removed |-> removed[i].path]

\* lines 194-203 and 211-214: entries whose path is not in the file list or
\* does not exist are removed, then to_file; in fast mode removed_files
\* becomes the queue of the hiding threads
CleanPrune ==
    /\ BackupFrame
    /\ proc = "clean"
    /\ cl.pc = "prune"
    /\ LET filelist == build_file_list({p \in UpPaths : fs[p] > 0})
           kept(e)  == (\E i \in DOMAIN filelist : filelist[i] = e.path)
                       /\ fs[e.path] > 0
           gone(e)  == ~kept(e)
       IN  /\ mf_files' = SelectSeq(mf_files, kept)
           /\ cl' = [cl EXCEPT !.pc = IF cl.fast THEN "fast" ELSE "list",
                               !.removed = SelectSeq(mf_files, gone),
                               !.queue = IF cl.fast
                                         THEN removed_files(SelectSeq(mf_files, gone))
                                         ELSE <<>>]
    /\ disk_manifest' = to_file(mf_mask, mf_files', remote_id)
    /\ UNCHANGED <<nonce_ctr, nonce_alloc, disk_alloc, mf_mask, proc, fs,
                   do_encrypt, remote_id, remote, file_queue, busy_threads, wk, sup,
                   rx, ranges, reserved, fails_left, periodic_left>>

\* lines 237-267: the remote files, the sorted masks, manifest.json set aside
CleanList ==
    /\ BackupFrame
    /\ proc = "clean"
    /\ cl.pc = "list"
    /\ cl' = [cl EXCEPT !.pc = "sweep",
                        !.listed = list_all_files(remote),
                        !.queue = without_manifest(list_all_files(remote)),
                        !.mask_list = sorted_masks(mf_files)]
    /\ UNCHANGED <<nonce_ctr, nonce_alloc, disk_alloc, mf_mask, mf_files, proc, fs,
                   do_encrypt, remote_id, disk_manifest, remote, file_queue,
                   busy_threads, wk, sup, rx, ranges, reserved, fails_left,
                   periodic_left>>

\* lines 223-230: a hiding thread pops a name of removed_files and calls
\* b2_hide_file with it
CleanHide ==
    /\ BackupFrame
    /\ proc = "clean"
    /\ cl.pc = "fast"
    /\ cl.queue # <<>>
    /\ LET file == cl.queue[Len(cl.queue)] IN
         cl' = [cl EXCEPT !.queue = SubSeq(cl.queue, 1, Len(cl.queue) - 1),
                          !.hidden = Append(cl.hidden, file)]
    /\ UNCHANGED <<nonce_ctr, nonce_alloc, disk_alloc, mf_mask, mf_files, proc, fs,
                   do_encrypt, remote_id, disk_manifest, remote, file_queue,
                   busy_threads, wk, sup, rx, ranges, reserved, fails_left,
                   periodic_left>>

\* lines 275-292: pop a remote file; without a matching mask its name is
\* hidden or its version deleted, as the mode tells
CleanSweep ==
    /\ BackupFrame
    /\ proc = "clean"
    /\ cl.pc = "sweep"
    /\ cl.queue # <<>>
    /\ LET file  == cl.queue[Len(cl.queue)]
           known == binary_search_by(cl.mask_list, file.name).found
       IN
         /\ remote' = IF known \/ cl.mode = "hide"
                      THEN remote
                      ELSE {o \in remote : ~(o.name = file.name /\ o.id = file.id)}
         /\ cl' = [cl EXCEPT !.queue = SubSeq(cl.queue, 1, Len(cl.queue) - 1),
                             !.hidden = IF ~known /\ cl.mode = "hide"
                                        THEN Append(cl.hidden, file.name)
                                        ELSE cl.hidden]
    /\ UNCHANGED <<nonce_ctr, nonce_alloc, disk_alloc, mf_mask, mf_files, proc, fs,
                   do_encrypt, remote_id, disk_manifest, file_queue, busy_threads,
                   wk, sup, rx, ranges, reserved, fails_left, periodic_left>>

\* lines 298-341: the pruned manifest.json is uploaded, its id kept
CleanSync ==
    /\ BackupFrame
    /\ proc = "clean"
    /\ cl.pc \in {"fast", "sweep"}
    /\ cl.queue = <<>>
    /\ IF do_encrypt
       THEN LET req == get_nonces_required(manifest_len(mf_files)) IN
            /\ Reserve(req)
            /\ Wrapped(consume_nonces(nonce_ctr, nonce_alloc, req).start, req)
       ELSE UNCHANGED <<nonce_ctr, nonce_alloc, disk_alloc, ranges, reserved>>
    /\ remote' = remote \cup {[name |-> MANIFEST_NAME, id |-> new_id(MANIFEST_NAME),
                                ts |-> 0]}
    /\ remote_id' = new_id(MANIFEST_NAME)
    /\ disk_manifest' = to_file(mf_mask, mf_files, remote_id')
    /\ proc' = "cleaned"
    /\ cl' = [cl EXCEPT !.pc = "done"]
    /\ UNCHANGED <<mf_mask, mf_files, fs, do_encrypt, file_queue, busy_threads, wk,
                   sup, rx, fails_left, periodic_left>>

\* `backup upload` then `clean delete`, from any files, manifest and bucket,
\* with no failing upload, no interrupt and a run shorter than five minutes
ConvergeInit ==
    BackupInit({0, MaxStamp}, 0..MaxStamp, {CHOOSE name \in MaskAssignments : TRUE},
               TRUE, {<<0, 0>>})

ConvergeNext ==
    \/ WorkerPop
    \/ WorkerLookup
    \/ WorkerStamp
    \/ WorkerMask
    \/ WorkerReserve
    \/ WorkerSendOk
    \/ SupFinalSync
    \/ SupCpSave
    \/ SupCpDelete
    \/ SupCpReserve
    \/ SupCpUploadOk
    \/ SupCpStore
    \/ CleanStart
    \/ CleanPrune
    \/ CleanList
    \/ CleanSweep
    \/ CleanSync

SpecConverge == ConvergeInit /\ [][ConvergeNext]_vars

\* the objects of bucket the manifest tells of, manifest.json among them
ToldObjects(files, bucket) ==
    {o \in bucket : \/ o.name = MANIFEST_NAME
                    \/ \E i \in DOMAIN files : o.name = files[i].mask}

\* what b2_get_file_info(remote_id) may return: Err, or the info of the
\* version with that id, whose modified() is any time
FileInfos(bucket, id) ==
    {[ok |-> FALSE, modified |-> 0]}
    \cup (IF \E o \in bucket : o.name = MANIFEST_NAME /\ o.id = id
          THEN {[ok |-> TRUE, modified |-> t] : t \in 0..MaxStamp}
          ELSE {})

\* start of `clean`: config and manifest.json loaded, file list built
\* (clean.rs lines 56-150), for any mode and flags; the files exist or not,
\* the manifest holds entries for any of them, the bucket holds what the
\* manifest tells of, with or without the manifest and an object of no file
CleanInit ==
    /\ EncIdle /\ DownloadIdle
    /\ LocksIdle /\ RetrieveIdle /\ FileListIdle
    /\ running = FALSE /\ epoch = 0 /\ handed = <<>> /\ lost = {} /\ mf_on = FALSE
    /\ nonce_ctr = 0 /\ nonce_alloc = 0 /\ disk_alloc = 0
    /\ proc = "clean"
    /\ fs \in [UpPaths -> {0, MaxStamp}]
    /\ do_encrypt \in BOOLEAN
    /\ mf_mask \in BOOLEAN
    /\ \E stamp \in [UpPaths -> {0, MaxStamp}] :
          mf_files = BuildManifest(UpPaths, mf_mask, stamp,
                                   CHOOSE name \in MaskAssignments : TRUE)
    /\ \E stray \in BOOLEAN, has_manifest \in BOOLEAN :
          remote = {o \in InitObjects(mf_files) :
                       \/ o \in ToldObjects(mf_files, InitObjects(mf_files))
                          /\ (o.name = MANIFEST_NAME => has_manifest)
                       \/ stray /\ o \notin ToldObjects(mf_files, InitObjects(mf_files))}
    /\ remote_id = IF MANIFEST_NAME \in RemoteNames THEN 1 ELSE 0
    /\ disk_manifest = to_file(mf_mask, mf_files, remote_id)
    /\ file_queue = <<>> /\ busy_threads = 0 /\ wk = <<>> /\ sup = <<>> /\ rx = 0
    /\ ranges = {} /\ reserved = 0 /\ fails_left = 0 /\ periodic_left = 0
    /\ \E mode \in {"hide", "delete"}, force \in BOOLEAN, fast \in BOOLEAN,
          modified_local \in 1..MaxStamp, info \in FileInfos(remote, remote_id) :
          cl = CleanRun(mode, force, fast, modified_local, info)

CleanNext ==
    \/ CleanCheck
    \/ CleanPrune
    \/ CleanHide
    \/ CleanList
    \/ CleanSweep
    \/ CleanSync

SpecClean == CleanInit /\ [][CleanNext]_vars

(***************************************************************************)
(* backup download (subcommands/backup/download.rs): the workers pop the   *)
(* entries of the retrieved manifest, the supervisor watches for Ctrl-C.   *)
(***************************************************************************)

\* a download thread that holds no entry
DlIdle == [pc |-> "pop", path |-> <<>>, stamp |-> 0, attempts |-> 0]

\* the modified time a file gets when it is written during the run
NowStamp == MaxStamp + 1

\* lines 291, 330, 349, 366: the for loop goes to its next attempt, or ends
\* after DOWNLOAD_ATTEMPTS attempts and the thread pops the next entry
NextAttempt(t) ==
    IF t.attempts = DOWNLOAD_ATTEMPTS - 1 THEN DlIdle
    ELSE [t EXCEPT !.pc = "fetch", !.attempts = @ + 1]

\* mutant of drained: the supervisor does not wait for the open files
drained_at_once(n) == TRUE

\* line 231: while open_files.load() > 0 { sleep } is left with this reading
drained(n) == ~(n > 0)

\* lines 106-212: the manifest is retrieved, the pool and the atomics set up
DownloadInit ==
    /\ LedgerIdle /\ EncIdle
    /\ LocksIdle /\ RetrieveIdle /\ FileListIdle
    /\ mf_on = FALSE /\ mf_mask = FALSE /\ do_encrypt = FALSE /\ remote_id = 0
    /\ disk_manifest = <<>> /\ remote = {} /\ file_queue = <<>> /\ ranges = {}
    /\ reserved = 0 /\ periodic_left = 0 /\ cl = <<>>
    /\ proc = "download"
    /\ \E stamp \in [UpPaths -> 1..MaxStamp] :
          mf_files = BuildManifest(UpPaths, mf_mask, stamp, stamp)
    /\ fs \in [UpPaths -> 0..MaxStamp]
    /\ busy_threads = NumWorkers
    /\ wk = [w \in Workers |-> DlIdle]
    /\ sup = [pc |-> "wait"]
    /\ rx = 0
    /\ fails_left = MaxFailures
    /\ allow_open_file = TRUE
    /\ open_files = 0
    /\ half = {}

\* mutant of DlPop: a local file as old as the entry is downloaded again
DlPopNotNewer ==
    /\ DownloadFrame
    /\ proc = "download"
    /\ \E w \in Workers :
         /\ wk[w].pc = "pop"
         /\ IF mf_files = <<>>
            THEN /\ busy_threads' = busy_threads - 1
                 /\ wk' = [wk EXCEPT ![w].pc = "exit"]
                 /\ UNCHANGED mf_files
            ELSE LET entry == mf_files[Len(mf_files)]
                     do_download == fs[entry.path] = 0
                                    \/ fs[entry.path] <= entry.timestamp
                 IN  /\ mf_files' = SubSeq(mf_files, 1, Len(mf_files) - 1)
                     /\ wk' = IF do_download
                              THEN [wk EXCEPT ![w] = [pc |-> "fetch", path |-> entry.path,
                                                      stamp |-> entry.timestamp,
                                                      attempts |-> 0]]
                              ELSE wk
                     /\ UNCHANGED busy_threads
    /\ UNCHANGED <<proc, fs, sup, rx, fails_left, allow_open_file, open_files, half>>

\* lines 255-286: pop an entry (None: busy_threads.fetch_sub(1) and leave);
\* it is downloaded when the local file is missing or older than the entry
DlPop ==
    /\ DownloadFrame
    /\ proc = "download"
    /\ \E w \in Workers :
         /\ wk[w].pc = "pop"
         /\ IF mf_files = <<>>
            THEN /\ busy_threads' = busy_threads - 1
                 /\ wk' = [wk EXCEPT ![w].pc = "exit"]
                 /\ UNCHANGED mf_files
            ELSE LET entry == mf_files[Len(mf_files)]
                     do_download == fs[entry.path] = 0
                                    \/ fs[entry.path] < entry.timestamp
                 IN  /\ mf_files' = SubSeq(mf_files, 1, Len(mf_files) - 1)
                     /\ wk' = IF do_download
                              THEN [wk EXCEPT ![w] = [pc |-> "fetch", path |-> entry.path,
                                                      stamp |-> entry.timestamp,
                                                      attempts |-> 0]]
                              ELSE wk
                     /\ UNCHANGED busy_threads
    /\ UNCHANGED <<proc, fs, sup, rx, fails_left, allow_open_file, open_files, half>>

\* lines 298-300: b2_download_file_by_name returns Ok(response)
DlFetchOk ==
    /\ DownloadFrame
    /\ proc = "download"
    /\ \E w \in Workers :
         /\ wk[w].pc = "fetch"
         /\ wk' = [wk EXCEPT ![w].pc = "announce"]
    /\ UNCHANGED <<mf_files, proc, fs, busy_threads, sup, rx, fails_left,
                   allow_open_file, open_files, half>>

\* lines 350-368: the download fails
DlFetchErr ==
    /\ DownloadFrame
    /\ proc = "download"
    /\ fails_left > 0
    /\ fails_left' = fails_left - 1
    /\ \E w \in Workers :
         /\ wk[w].pc = "fetch"
         /\ wk' = [wk EXCEPT ![w] = NextAttempt(wk[w])]
    /\ UNCHANGED <<mf_files, proc, fs, busy_threads, sup, rx, allow_open_file,
                   open_files, half>>

\* line 305: open_files.fetch_add(1)
DlAnnounce ==
    /\ DownloadFrame
    /\ proc = "download"
    /\ \E w \in Workers :
         /\ wk[w].pc = "announce"
         /\ open_files' = open_files + 1
         /\ wk' = [wk EXCEPT ![w].pc = "check"]
    /\ UNCHANGED <<mf_files, proc, fs, busy_threads, sup, rx, fails_left,
                   allow_open_file, half>>

\* line 308: allow_open_file.load()
DlCheck ==
    /\ DownloadFrame
    /\ proc = "download"
    /\ \E w \in Workers :
         /\ wk[w].pc = "check"
         /\ wk' = [wk EXCEPT ![w].pc = IF allow_open_file THEN "create" ELSE "back_off"]
    /\ UNCHANGED <<mf_files, proc, fs, busy_threads, sup, rx, fails_left,
                   allow_open_file, open_files, half>>

\* lines 312-314: open_files.fetch_sub(1), busy_threads.fetch_sub(1), return
DlBackOff ==
    /\ DownloadFrame
    /\ proc = "download"
    /\ \E w \in Workers :
         /\ wk[w].pc = "back_off"
         /\ open_files' = open_files - 1
         /\ busy_threads' = busy_threads - 1
         /\ wk' = [wk EXCEPT ![w] = [DlIdle EXCEPT !.pc = "exit"]]
    /\ UNCHANGED <<mf_files, proc, fs, sup, rx, fails_left, allow_open_file, half>>

\* lines 318-326: File::create succeeds: the file exists and is empty
DlCreate ==
    /\ DownloadFrame
    /\ proc = "download"
    /\ \E w \in Workers :
         /\ wk[w].pc = "create"
         /\ half' = half \cup {wk[w].path}
         /\ fs' = [fs EXCEPT ![wk[w].path] = NowStamp]
         /\ wk' = [wk EXCEPT ![w].pc = "write"]
    /\ UNCHANGED <<mf_files, proc, busy_threads, sup, rx, fails_left,
                   allow_open_file, open_files>>

\* lines 327-331: File::create fails: open_files.fetch_sub(1), next attempt
DlCreateErr ==
    /\ DownloadFrame
    /\ proc = "download"
    /\ fails_left > 0
    /\ fails_left' = fails_left - 1
    /\ \E w \in Workers :
         /\ wk[w].pc = "create"
         /\ open_files' = open_files - 1
         /\ wk' = [wk EXCEPT ![w] = NextAttempt(wk[w])]
    /\ UNCHANGED <<mf_files, proc, fs, busy_threads, sup, rx, allow_open_file, half>>

\* lines 334-344: write_all and flush have returned: the file is complete
DlWrite ==
    /\ DownloadFrame
    /\ proc = "download"
    /\ \E w \in Workers :
         /\ wk[w].pc = "write"
         /\ half' = half \ {wk[w].path}
         /\ wk' = [wk EXCEPT ![w].pc = "close"]
    /\ UNCHANGED <<mf_files, proc, fs, busy_threads, sup, rx, fails_left,
                   allow_open_file, open_files>>

\* lines 334-343: an unwrap or an expect of the write panics (no body, no
\* key, Decryption failed!): the thread dies with the file created and
\* open_files not decremented
DlWritePanic ==
    /\ DownloadFrame
    /\ proc = "download"
    /\ fails_left > 0
    /\ fails_left' = fails_left - 1
    /\ \E w \in Workers :
         /\ wk[w].pc = "write"
         /\ wk' = [wk EXCEPT ![w].pc = "panicked"]
    /\ UNCHANGED <<mf_files, proc, fs, busy_threads, sup, rx, allow_open_file,
                   open_files, half>>

\* lines 347-349: open_files.fetch_sub(1); the arm ends without a break
DlClose ==
    /\ DownloadFrame
    /\ proc = "download"
    /\ \E w \in Workers :
         /\ wk[w].pc = "close"
         /\ open_files' = open_files - 1
         /\ wk' = [wk EXCEPT ![w] = NextAttempt(wk[w])]
    /\ UNCHANGED <<mf_files, proc, fs, busy_threads, sup, rx, fails_left,
                   allow_open_file, half>>

\* the Ctrl-C handler of lines 185-187: tx.send(1)
DlInterrupt ==
    /\ DownloadFrame
    /\ proc = "download"
    /\ sup.pc # "exit"
    /\ rx = 0
    /\ rx' = 1
    /\ UNCHANGED <<mf_files, proc, fs, busy_threads, wk, sup, fails_left,
                   allow_open_file, open_files, half>>

\* lines 218-220: recv_timeout returns Ok
DlSupObserve ==
    /\ DownloadFrame
    /\ proc = "download"
    /\ sup.pc = "wait"
    /\ rx > 0
    /\ rx' = rx - 1
    /\ sup' = [sup EXCEPT !.pc = "forbid"]
    /\ UNCHANGED <<mf_files, proc, fs, busy_threads, wk, fails_left,
                   allow_open_file, open_files, half>>

\* line 227: allow_open_file.swap(false)
DlSupForbid ==
    /\ DownloadFrame
    /\ proc = "download"
    /\ sup.pc = "forbid"
    /\ allow_open_file' = FALSE
    /\ sup' = [sup EXCEPT !.pc = "clear"]
    /\ UNCHANGED <<mf_files, proc, fs, busy_threads, wk, rx, fails_left,
                   open_files, half>>

\* line 229: manifest.lock().files.clear()
DlSupClear ==
    /\ DownloadFrame
    /\ proc = "download"
    /\ sup.pc = "clear"
    /\ mf_files' = <<>>
    /\ sup' = [sup EXCEPT !.pc = "drain"]
    /\ UNCHANGED <<proc, fs, busy_threads, wk, rx, fails_left, allow_open_file,
                   open_files, half>>

\* lines 231-233: the loop ends when open_files.load() is read as 0
DlSupDrain ==
    /\ DownloadFrame
    /\ proc = "download"
    /\ sup.pc = "drain"
    /\ drained(open_files)
    /\ sup' = [sup EXCEPT !.pc = "abort"]
    /\ UNCHANGED <<mf_files, proc, fs, busy_threads, wk, rx, fails_left,
                   allow_open_file, open_files, half>>

\* line 237: abort(): the process and its threads are gone, the files stay
DlSupAbort ==
    /\ DownloadFrame
    /\ proc = "download"
    /\ sup.pc = "abort"
    /\ proc' = "aborted"
    /\ wk' = <<>> /\ sup' = <<>> /\ rx' = 0 /\ busy_threads' = 0
    /\ open_files' = 0 /\ allow_open_file' = FALSE
    /\ UNCHANGED <<mf_files, fs, fails_left, half>>

\* lines 241-244: recv_timeout times out and no worker is busy: break
DlSupExit ==
    /\ DownloadFrame
    /\ proc = "download"
    /\ sup.pc = "wait"
    /\ rx = 0
    /\ busy_threads = 0
    /\ sup' = [sup EXCEPT !.pc = "exit"]
    /\ UNCHANGED <<mf_files, proc, fs, busy_threads, wk, rx, fails_left,
                   allow_open_file, open_files, half>>

DownloadNext ==
    \/ DlPop
    \/ DlFetchOk
    \/ DlFetchErr
    \/ DlAnnounce
    \/ DlCheck
    \/ DlBackOff
    \/ DlCreate
    \/ DlCreateErr
    \/ DlWrite
    \/ DlWritePanic
    \/ DlClose
    \/ DlInterrupt
    \/ DlSupObserve
    \/ DlSupForbid
    \/ DlSupClear
    \/ DlSupDrain
    \/ DlSupAbort
    \/ DlSupExit

SpecDownload == DownloadInit /\ [][DownloadNext]_vars

(***************************************************************************)
(* The DecryptingWriter on a stream that ends anywhere: the reader's       *)
(* stream for a file cut short in transit or in the store.  The frames are *)
(* those the reader makes of a file of zero bytes but for the last four    *)
(* bytes of the last whole frame, which are the big-endian number v.       *)
(***************************************************************************)

\* the values the last four plaintext bytes of the last whole frame may hold
TailValues ==
    {0, 3, 4, DATA_LENGTH - 1, DATA_LENGTH, DATA_LENGTH + 3, 2 * DATA_LENGTH,
     2 * DATA_LENGTH + 1}

\* whole frames of the cut stream
MaxTailFrames == 4

\* bytes of the next frame the cut stream ends with
TailResidues == {0, 1, BLOCK_LENGTH - 1}

\* bytes of the header the cut stream holds
TailHeaders == {0, HEADER_LENGTH - 1, HEADER_LENGTH}

\* reader.rs lines 79-81: the frame for counter nonce of a block of zero
\* bytes ending in the four bytes of v
TailFrame(key, nonce, v) ==
    aead_encrypt(key, nonce_from_u128(nonce),
                 <<Zeros(DATA_LENGTH - 4), Bytes(to_be_bytes32(v))>>)

RECURSIVE TailFrames(_, _, _, _)
TailFrames(key, nonce, m, v) ==
    IF m = 0 THEN <<>>
    ELSE IF m = 1 THEN <<TailFrame(key, nonce, v)>>
    ELSE <<TailFrame(key, nonce, 0)>> \o TailFrames(key, nonce + 1, m - 1, v)

\* reader.rs lines 57-62 and 79-86: header and frames, cut after h bytes of
\* the header, or after m whole frames and r bytes of the next one
CutStream(key, start, h, m, v, r) ==
    IF h < HEADER_LENGTH THEN RTake(<<Bytes(to_be_bytes128(start))>>, h)
    ELSE RNorm(<<Bytes(to_be_bytes128(start))>> \o TailFrames(key, start, m, v)
               \o RTake(<<TailFrame(key, start + m, 0)>>, r))

\* download.rs line 336: DecryptingWriter::target(file, key), and the body
\* of the response it is about to be given
TailInit ==
    /\ LedgerIdle /\ ManifestIdle /\ BackupIdle /\ DownloadIdle
    /\ LocksIdle /\ RetrieveIdle /\ FileListIdle
    /\ rd = <<>>
    /\ enc_len = 0 /\ enc_alloc = 0 /\ enc_eof = FALSE
    /\ enc_start \in StartNonces
    /\ enc_bufsize \in BufSizes
    /\ LET key == CHOOSE key \in Keys : TRUE IN
         /\ wr = target(key)
         /\ \E h \in TailHeaders, m \in 0..MaxTailFrames, v \in TailValues,
               r \in TailResidues :
              enc_out = CutStream(key, enc_start, h, m, v, r)
    /\ enc_buf = <<>>
    /\ enc_total = 0
    /\ enc_pc = IF RLen(enc_out) = 0 THEN "flush" ELSE "write"

\* download.rs line 337, test.rs: writer.write_all of the next bytes of the
\* stream (write_all makes no call for an empty slice)
TailWrite ==
    /\ EncFrame
    /\ enc_pc = "write"
    /\ LET chunk == RSlice(enc_out, enc_total, enc_bufsize)
           y     == write_all(wr, chunk)
       IN  /\ enc_buf' = chunk
           /\ wr' = y.w
           /\ enc_total' = enc_total + RLen(chunk)
           /\ enc_pc' = IF y.res # "ok" THEN "panic"
                        ELSE IF enc_total + RLen(chunk) = RLen(enc_out) THEN "flush"
                        ELSE "write"
    /\ UNCHANGED <<rd, enc_bufsize, enc_len, enc_start, enc_alloc, enc_eof, enc_out>>

\* download.rs line 338: writer.flush()
TailFlush ==
    /\ EncFrame
    /\ enc_pc = "flush"
    /\ LET y == flush(wr) IN
       /\ wr' = y.w
       /\ enc_pc' = IF y.res = "ok" THEN "done" ELSE "panic"
    /\ UNCHANGED <<rd, enc_buf, enc_bufsize, enc_len, enc_start, enc_alloc,
                   enc_total, enc_eof, enc_out>>

TailNext ==
    \/ TailWrite
    \/ TailFlush

SpecTail == TailInit /\ [][TailNext]_vars

(***************************************************************************)
(* backup download, retrieval of the manifest (download.rs lines 99-177).  *)
(* A file is [exists, ok, m]: ok when serde_json parses it as the          *)
(* FileManifest whose entries are m.                                       *)
(***************************************************************************)

RetrFrame == UNCHANGED <<ledgerVars, encVars, manVars, upVars, dlVars, lockVars,
                         listVars>>

NoFile      == [exists |-> FALSE, ok |-> FALSE, m |-> <<>>]
BadFile     == [exists |-> TRUE, ok |-> FALSE, m |-> <<>>]
FileOf(m)   == [exists |-> TRUE, ok |-> TRUE, m |-> m]

\* the manifests a manifest.json may hold
StoredManifests ==
    {BuildManifest(UpPaths, FALSE, stamp, stamp) : stamp \in [UpPaths -> 1..MaxStamp]}

\* what b2_download_file_by_name may return: Err, or Ok with a body that is
\* a manifest as uploaded ("manifest"), bytes that are no such thing
\* ("garbage"), or fewer than 16 bytes ("short")
Responses ==
    {[ok |-> FALSE, kind |-> "none", m |-> <<>>],
     [ok |-> TRUE, kind |-> "garbage", m |-> <<>>],
     [ok |-> TRUE, kind |-> "short", m |-> <<>>]}
    \cup {[ok |-> TRUE, kind |-> "manifest", m |-> m] : m \in StoredManifests}

\* manifest.rs lines 42-44: FileManifest::from_file
from_file(file) ==
    IF file.exists /\ file.ok THEN [ok |-> TRUE, m |-> file.m]
    ELSE [ok |-> FALSE, m |-> <<>>]

\* std::fs::rename(from, to), result unused: the pair <<from, to>> afterwards
rename(from, to) == IF from.exists THEN <<NoFile, from>> ELSE <<from, to>>

\* lines 99-105: the command is about to ask for the remote manifest
RetrieveInit ==
    /\ LedgerIdle /\ EncIdle /\ ManifestIdle /\ BackupIdle /\ DownloadIdle
    /\ LocksIdle /\ FileListIdle
    /\ rt_pc = "fetch"
    /\ rt_encrypt \in BOOLEAN
    /\ response = <<>>
    /\ manifest_json \in {NoFile, BadFile} \cup {FileOf(m) : m \in StoredManifests}
    /\ manifest_json_old \in {NoFile, FileOf(CHOOSE m \in StoredManifests : TRUE)}
    /\ manifest = <<>>
    /\ rt_previous = manifest_json

\* line 107: b2_download_file_by_name returns
RtFetch ==
    /\ RetrFrame
    /\ rt_pc = "fetch"
    /\ response' \in Responses
    /\ rt_pc' = IF response'.ok THEN "rename" ELSE "local"
    /\ UNCHANGED <<rt_encrypt, manifest_json, manifest_json_old, manifest, rt_previous>>

\* line 111: rename("manifest.json", "manifest.json.old")
RtRename ==
    /\ RetrFrame
    /\ rt_pc = "rename"
    /\ LET r == rename(manifest_json, manifest_json_old) IN
         /\ manifest_json' = r[1]
         /\ manifest_json_old' = r[2]
    /\ rt_pc' = "create"
    /\ UNCHANGED <<rt_encrypt, response, manifest, rt_previous>>

\* lines 115-116: File::create("manifest.json") returns Ok: an empty file
RtCreate ==
    /\ RetrFrame
    /\ rt_pc = "create"
    /\ manifest_json' = BadFile
    /\ rt_pc' = "write"
    /\ UNCHANGED <<rt_encrypt, response, manifest_json_old, manifest, rt_previous>>

\* lines 117-120: File::create returns Err: a message and return
RtCreateErr ==
    /\ RetrFrame
    /\ rt_pc = "create"
    /\ rt_pc' = "returned"
    /\ UNCHANGED <<rt_encrypt, response, manifest_json, manifest_json_old, manifest,
                   rt_previous>>

\* lines 123-133: the body is written to manifest.json, through a
\* DecryptingWriter when encryption is on; the results of write_all and
\* flush are unused.  A body the key does not open panics in the writer
\* (writer.rs lines 68-69, 77-79, 86-87); one of fewer than 16 bytes leaves
\* the writer in its Nonce state and the file empty.
RtWrite ==
    /\ RetrFrame
    /\ rt_pc = "write"
    /\ IF rt_encrypt /\ response.kind = "garbage"
       THEN /\ rt_pc' = "panicked"
            /\ UNCHANGED manifest_json
       ELSE /\ rt_pc' = "parse"
            /\ manifest_json' = IF response.kind = "manifest" THEN FileOf(response.m)
                                ELSE BadFile
    /\ UNCHANGED <<rt_encrypt, response, manifest_json_old, manifest, rt_previous>>

\* lines 123-133: the write fails (the disk is full): the Err is dropped and
\* manifest.json holds a part of the text
RtWriteErr ==
    /\ RetrFrame
    /\ rt_pc = "write"
    /\ ~(rt_encrypt /\ response.kind = "garbage")
    /\ manifest_json' = BadFile
    /\ rt_pc' = "parse"
    /\ UNCHANGED <<rt_encrypt, response, manifest_json_old, manifest, rt_previous>>

\* lines 137-138: FileManifest::from_file("manifest.json")
RtParse ==
    /\ RetrFrame
    /\ rt_pc = "parse"
    /\ LET fm == from_file(manifest_json) IN
         /\ manifest' = IF fm.ok THEN fm.m ELSE manifest
         /\ rt_pc' = IF fm.ok THEN "loaded" ELSE "fallback"
    /\ UNCHANGED <<rt_encrypt, response, manifest_json, manifest_json_old, rt_previous>>

\* lines 139-157: from_file("manifest.json.old"), then the rename back;
\* Ok: the old manifest is used, Err: return
RtFallback ==
    /\ RetrFrame
    /\ rt_pc = "fallback"
    /\ LET fm == from_file(manifest_json_old)
           r  == rename(manifest_json_old, manifest_json)
       IN  /\ manifest_json_old' = r[1]
           /\ manifest_json' = r[2]
           /\ manifest' = IF fm.ok THEN fm.m ELSE manifest
           /\ rt_pc' = IF fm.ok THEN "loaded" ELSE "returned"
    /\ UNCHANGED <<rt_encrypt, response, rt_previous>>

\* lines 160-176: the download has failed: from_file("manifest.json")
RtLocal ==
    /\ RetrFrame
    /\ rt_pc = "local"
    /\ LET fm == from_file(manifest_json) IN
         /\ manifest' = IF fm.ok THEN fm.m ELSE manifest
         /\ rt_pc' = IF fm.ok THEN "loaded" ELSE "returned"
    /\ UNCHANGED <<rt_encrypt, response, manifest_json, manifest_json_old, rt_previous>>

RetrieveNext ==
    \/ RtFetch
    \/ RtRename
    \/ RtCreate
    \/ RtCreateErr
    \/ RtWrite
    \/ RtWriteErr
    \/ RtParse
    \/ RtFallback
    \/ RtLocal

SpecRetrieve == RetrieveInit /\ [][RetrieveNext]_vars

(***************************************************************************)
(* The Mutexes of backup upload (subcommands/backup/upload.rs): where each *)
(* thread takes a guard, where the guard is dropped, and where a call to   *)
(* the store starts and returns.  A guard made inside an expression is a   *)
(* temporary: it is dropped at the end of the enclosing statement.         *)
(***************************************************************************)

LockFrame == UNCHANGED <<ledgerVars, encVars, manVars, upVars, dlVars, retrVars,
                         listVars>>

\* the supervisor thread of line 149, beside the workers 1..NumWorkers
SupThread == 0

\* the threads of lines 149 and 240
LockThreads == {SupThread} \cup Workers

\* Mutex::lock: blocks until the Mutex is free, then the caller holds the guard
Lock(t, m, from, to) ==
    /\ lk_pc[t] = from
    /\ mutex[m] = {}
    /\ mutex' = [mutex EXCEPT ![m] = {t}]
    /\ lk_pc' = [lk_pc EXCEPT ![t] = to]

\* drop of the MutexGuard
Unlock(t, m, from, tos) ==
    /\ lk_pc[t] = from
    /\ mutex[m] = {t}
    /\ mutex' = [mutex EXCEPT ![m] = {}]
    /\ \E to \in tos : lk_pc' = [lk_pc EXCEPT ![t] = to]

\* a statement that touches no Mutex
Go(t, from, tos) ==
    /\ lk_pc[t] = from
    /\ \E to \in tos : lk_pc' = [lk_pc EXCEPT ![t] = to]
    /\ UNCHANGED mutex

\* lines 244-271: pop a path; None: the worker leaves
LkWorkerPop ==
    /\ LockFrame
    /\ \E w \in Workers : Go(w, "pop", {"lookup", "exit"})

\* lines 274-284: match manifest.lock().unwrap().get_from_path(&path): the
\* guard lives to the end of the match; continue when do_upload is false
LkWorkerLookup ==
    /\ LockFrame
    /\ \E w \in Workers :
          \/ Lock(w, "manifest", "lookup", "lookup_held")
          \/ Unlock(w, "manifest", "lookup_held", {"stamp", "pop"})

\* line 285: manifest.lock().unwrap().update_timestamp(..), the guard
\* dropped at the end of the statement
LkWorkerStamp ==
    /\ LockFrame
    /\ \E w \in Workers :
          \/ Lock(w, "manifest", "stamp", "stamp_held")
          \/ Unlock(w, "manifest", "stamp_held", {"mask"})

\* line 289: manifest.lock().unwrap().get_mask(..).1, the guard dropped at
\* the end of the statement
LkWorkerMask ==
    /\ LockFrame
    /\ \E w \in Workers :
          \/ Lock(w, "manifest", "mask", "mask_held")
          \/ Unlock(w, "manifest", "mask_held", {"open"})

\* lines 295-302: File::open; Err: break
LkWorkerOpen ==
    /\ LockFrame
    /\ \E w \in Workers : Go(w, "open", {"reserve", "pop"})

\* lines 312-317: let mut n = config_handle.lock().unwrap(), dropped at the
\* end of the block that owns n
LkWorkerReserve ==
    /\ LockFrame
    /\ \E w \in Workers :
          \/ Lock(w, "config", "reserve", "reserve_held")
          \/ Unlock(w, "config", "reserve_held", {"send"})

\* lines 327-353: b2_upload_file is called, and returns: Ok or the last
\* Err: next path; Err: retry
LkWorkerUpload ==
    /\ LockFrame
    /\ \E w \in Workers :
          \/ Go(w, "send", {"in_upload"})
          \/ Go(w, "in_upload", {"pop", "open"})

\* lines 227-230: after a checkpoint the supervisor leaves when no worker
\* is left (active_threads, read at line 167, is taken at its value now)
LkAfterSync ==
    IF \A w \in Workers : lk_pc[w] = "exit" THEN {"exit"} ELSE {"wait"}

\* lines 155-173: recv_timeout returns: an interrupt, or a checkpoint is due
LkSupWake ==
    /\ LockFrame
    /\ Go(SupThread, "wait", {"int_save", "cp_save"})

\* line 160: manifest.lock().unwrap().to_file(..), the guard dropped at the
\* end of the statement
LkSupIntSave ==
    /\ LockFrame
    /\ \/ Lock(SupThread, "manifest", "int_save", "int_save_held")
       \/ Unlock(SupThread, "manifest", "int_save_held", {"int_abort"})

\* line 164: abort(): every thread of the process ends where it is
LkSupAbort ==
    /\ LockFrame
    /\ lk_pc[SupThread] = "int_abort"
    /\ lk_pc' = [t \in LockThreads |-> "exit"]
    /\ mutex' = [m \in DOMAIN mutex |-> {}]

\* line 175: manifest.lock().unwrap().to_file(..), the guard dropped at the
\* end of the statement
LkSupSave ==
    /\ LockFrame
    /\ \/ Lock(SupThread, "manifest", "cp_save", "cp_save_held")
       \/ Unlock(SupThread, "manifest", "cp_save_held", {"cp_delete"})

\* line 190: the argument &manifest.lock().unwrap().remote_id is evaluated,
\* b2_delete_file_version is called with the arguments, the call returns,
\* and the end of the statement drops the temporary guard; the nonces of
\* lines 192-198 are reserved when do_encrypt
LkSupDelete ==
    /\ LockFrame
    /\ \/ Lock(SupThread, "manifest", "cp_delete", "cp_delete_held")
       \/ Go(SupThread, "cp_delete_held", {"in_delete"})
       \/ Go(SupThread, "in_delete", {"cp_delete_returned"})
       \/ Unlock(SupThread, "manifest", "cp_delete_returned",
                 {"cp_reserve", "cp_send"})

\* lines 193-198: let mut n = config_handle.lock().unwrap(), dropped at the
\* end of the block that owns n
LkSupReserve ==
    /\ LockFrame
    /\ \/ Lock(SupThread, "config", "cp_reserve", "cp_reserve_held")
       \/ Unlock(SupThread, "config", "cp_reserve_held", {"cp_send"})

\* lines 204-230: b2_upload_file is called, and returns: Ok: the id is
\* stored; Err: wait or leave
LkSupUpload ==
    /\ LockFrame
    /\ \/ Go(SupThread, "cp_send", {"in_upload"})
       \/ Go(SupThread, "in_upload", {"cp_store"} \cup LkAfterSync)

\* line 211: manifest.lock().unwrap().remote_id = .., the guard dropped at
\* the end of the statement
LkSupStore ==
    /\ LockFrame
    /\ \/ Lock(SupThread, "manifest", "cp_store", "cp_store_held")
       \/ Unlock(SupThread, "manifest", "cp_store_held", {"cp_write"})

\* lines 212, 227-230: manifest.lock().unwrap().to_file(..), the guard
\* dropped at the end of the statement, then wait or leave
LkSupWrite ==
    /\ LockFrame
    /\ \/ Lock(SupThread, "manifest", "cp_write", "cp_write_held")
       \/ Unlock(SupThread, "manifest", "cp_write_held", LkAfterSync)

\* lines 143-149 and 240: the Mutexes are made and the threads are started
LocksInit ==
    /\ LedgerIdle /\ EncIdle /\ ManifestIdle /\ BackupIdle /\ DownloadIdle
    /\ RetrieveIdle /\ FileListIdle
    /\ lk_pc = [t \in LockThreads |-> IF t = SupThread THEN "wait" ELSE "pop"]
    /\ mutex = [m \in {"manifest", "config"} |-> {}]

LocksNext ==
    \/ LkWorkerPop
    \/ LkWorkerLookup
    \/ LkWorkerStamp
    \/ LkWorkerMask
    \/ LkWorkerOpen
    \/ LkWorkerReserve
    \/ LkWorkerUpload
    \/ LkSupWake
    \/ LkSupIntSave
    \/ LkSupAbort
    \/ LkSupSave
    \/ LkSupDelete
    \/ LkSupReserve
    \/ LkSupUpload
    \/ LkSupStore
    \/ LkSupWrite

SpecLocks == LocksInit /\ [][LocksNext]_vars

(***************************************************************************)
(* filelist.rs: build_file_list.  The backup list is a sequence of rules   *)
(* [dir, filters]; a filter is a regular expression without               *)
(* metacharacters, which matches a text exactly when it occurs in it.      *)
(* tree is the set of the files below "/a", by their paths.                *)
(***************************************************************************)

ListFrame == UNCHANGED <<ledgerVars, encVars, manVars, upVars, dlVars, lockVars,
                         retrVars>>

\* f occurs in the text s
Occurs(f, s) ==
    \E i \in 0..(Len(s) - Len(f)) : SubSeq(s, i + 1, i + Len(f)) = f

\* line 99: reg_set.is_match(name)
is_match(regex_str, name) == \E f \in regex_str : Occurs(f, name)

\* dir is the path p or a directory above it
Below(dir, p) ==
    /\ Len(dir) < Len(p)
    /\ SubSeq(p, 1, Len(dir)) = dir
    /\ p[Len(dir) + 1] = 47

\* line 94: WalkDir::new(dir): the files below dir, each by the path that
\* starts with dir as it was given; here in path order
WalkDir(dir, tree) ==
    CHOOSE q \in Orders({p \in tree : Below(dir, p)}) :
        \A i \in 1..(Len(q) - 1) : StrCmp(q[i], q[i + 1]) = "Less"

\* lines 84-107: the rules are evaluated in turn, each pushing the files of
\* its walk that no filter of the rule matches
RECURSIVE build_rules(_, _)
build_rules(rules, tree) ==
    IF rules = <<>> THEN <<>>
    ELSE LET rule   == Head(rules)
             keep(name) == ~is_match(rule.filters, name)
         IN  SelectSeq(WalkDir(rule.dir, tree), keep)
                \o build_rules(Tail(rules), tree)

\* the directories a rule may name: "/a" and "/a/b"
RuleDirs == {<<47, 97>>, <<47, 97, 47, 98>>}

\* the filters a rule may carry: "a" and "b"
RuleFilters == {<<97>>, <<98>>}

\* the files that may exist: "/a/a", "/a/b/a" and "/a/b/b"
TreeFiles == {<<47, 97, 47, 97>>, <<47, 97, 47, 98, 47, 97>>,
              <<47, 97, 47, 98, 47, 98>>}

\* the backup lists of one or two rules
RuleLists ==
    LET Rules == [dir : RuleDirs, filters : SUBSET RuleFilters]
    IN  {<<r>> : r \in Rules} \cup {<<r, t>> : r \in Rules, t \in Rules}

\* a backup list and a file tree, before build_file_list is called
FileListInit ==
    /\ LedgerIdle /\ EncIdle /\ ManifestIdle /\ BackupIdle /\ DownloadIdle
    /\ LocksIdle /\ RetrieveIdle
    /\ \E rules \in RuleLists, tree \in SUBSET TreeFiles :
          fl = [pc |-> "call", rules |-> rules, tree |-> tree, files |-> <<>>]

\* lines 69-108: build_file_list runs to its return
FlBuild ==
    /\ ListFrame
    /\ fl.pc = "call"
    /\ fl' = [fl EXCEPT !.pc = "returned",
                        !.files = build_rules(fl.rules, fl.tree)]

FileListNext == FlBuild

SpecFileList == FileListInit /\ [][FileListNext]_vars

(***************************************************************************)
(* Properties                                                              *)
(***************************************************************************)

\* sum of the amounts of the calls 1..k of `handed` made in epoch e
RECURSIVE SumAmounts(_, _)
SumAmounts(k, e) ==
    IF k = 0 THEN 0
    ELSE SumAmounts(k - 1, e) + (IF handed[k].epoch = e THEN handed[k].amount ELSE 0)

\* C1: on one Config without a reload, call k of consume_nonces returns the
\* initial nonce_ctr plus the amounts of the calls before it, so the ranges
\* [start, start + amount) handed out are contiguous and pairwise disjoint.
C1_ContiguousRanges ==
    \A k \in DOMAIN handed :
        /\ handed[k].start = handed[k].base + SumAmounts(k - 1, handed[k].epoch)
        /\ \A j \in 1..(k - 1) :
              handed[j].epoch = handed[k].epoch
                  => handed[j].start + handed[j].amount <= handed[k].start

\* C1 witness: three calls on one Config, the middle one crossing several
\* pre-allocation blocks.
C1_Witness ==
    /\ Len(handed) >= 3
    /\ handed[1].epoch = handed[3].epoch
    /\ handed[1].amount > 0
    /\ handed[2].amount > NONCE_PREALLOC_AMOUNT
    /\ handed[3].amount > 0

C4_RoundTrip ==
    (enc_pc # "idle" /\ enc_alloc = get_nonces_required(enc_len)
                     /\ enc_bufsize = TEST_BUF)
        => /\ enc_pc \in {"read", "write", "flush", "done"}
           /\ RLen(wr.target) <= enc_len
           /\ enc_pc = "done" => RunsEq(wr.target, RNorm(<<Data(0, enc_len)>>))

\* C4 witness: a finished round trip of a plaintext that ends one to three
\* bytes short of a frame boundary, after at least one full frame.
C4_Witness ==
    /\ enc_pc = "done"
    /\ enc_alloc = get_nonces_required(enc_len)
    /\ enc_bufsize = TEST_BUF
    /\ enc_len > DATA_LENGTH
    /\ enc_len % DATA_LENGTH >= DATA_LENGTH - 3
    /\ RLen(wr.target) = enc_len

\* C5: when the EncryptingReader first returns Ok(0) it has returned
\* 16 + get_nonces_required(L) * BLOCK_LENGTH bytes and has encrypted exactly
\* get_nonces_required(L) frames, one counter each.
C5_OutputSize ==
    enc_eof =>
        /\ enc_total = 16 + get_nonces_required(enc_len) * BLOCK_LENGTH
        /\ Len(rd.used) = get_nonces_required(enc_len)
        /\ rd.nonce - enc_start = get_nonces_required(enc_len)
        /\ rd.total_size = get_nonces_required(enc_len) * BLOCK_LENGTH

\* C5 witness: the reader has ended on a plaintext that needs the extra
\* padding frame.
C5_Witness ==
    /\ enc_eof
    /\ enc_len % DATA_LENGTH = DATA_LENGTH - 1
    /\ enc_total = 16 + get_nonces_required(enc_len) * BLOCK_LENGTH

\* C6: every counter a reader made by wrap(start, allocated) encrypts a frame
\* with lies in [start, start + allocated); a reader given fewer counters than
\* its input needs never reaches the end of its stream.
C6_NoncesWithinRange ==
    enc_pc # "idle" =>
        /\ \A i \in DOMAIN rd.used :
              enc_start <= rd.used[i] /\ rd.used[i] < enc_start + enc_alloc
        /\ enc_alloc < get_nonces_required(enc_len) => ~enc_eof /\ enc_pc # "done"

\* C6 witness: the reader has used up a non-empty allocation that was too
\* small and has aborted.
C6_Witness ==
    /\ enc_pc = "panic"
    /\ enc_alloc >= 1
    /\ enc_alloc < get_nonces_required(enc_len)
    /\ Len(rd.used) = enc_alloc

\* a linear scan of files for path: the first entry with that path
LinearScan(files, path) ==
    IF \E i \in DOMAIN files : files[i].path = path
    THEN LET i == CHOOSE i \in DOMAIN files :
                      /\ files[i].path = path
                      /\ \A j \in 1..(i - 1) : files[j].path # path
         IN  <<files[i].timestamp, files[i].mask>>
    ELSE <<>>

\* C7: after any sequence of get_mask, update_timestamp, remove_path and
\* remove_mask calls on an empty manifest the entries are strictly sorted by
\* path, and get_from_path(p) returns what a linear scan for p returns.
C7_SortedByPath ==
    mf_on =>
        /\ \A i \in 1..(Len(mf_files) - 1) :
              StrCmp(mf_files[i].path, mf_files[i + 1].path) = "Less"
        /\ \A p \in Paths : get_from_path(mf_files, p) = LinearScan(mf_files, p)

\* three entries, the remote names not in the order of the paths, and a
\* lookup that finds the last of them
C7_Witness ==
    /\ mf_on /\ mf_mask
    /\ Len(mf_files) = 3
    /\ StrCmp(mf_files[1].mask, mf_files[2].mask) = "Greater"
    /\ get_from_path(mf_files, mf_files[3].path) # <<>>

\* the versions of manifest.json in a bucket
ManifestVersions(bucket) == {o \in bucket : o.name = MANIFEST_NAME}

\* C3: in an upload run every attempt (a file, a retry, a manifest
\* checkpoint) holds a range returned by its own consume_nonces call, and the
\* ranges reserved in the run are pairwise disjoint whatever the interleaving
\* of the workers and the supervisor.
C3_DisjointRanges ==
    proc \in {"upload", "aborted"} =>
        /\ Cardinality(ranges) = reserved
        /\ \A a, b \in ranges :
              a # b => (a.start + a.n <= b.start \/ b.start + b.n <= a.start)
        /\ \A a \in ranges :
              a.n >= 1 /\ (proc = "upload" => a.start + a.n <= nonce_ctr)
        /\ proc = "upload" =>
              \A w \in Workers :
                 wk[w].pc = "send" =>
                    /\ [start |-> wk[w].start, n |-> wk[w].allocated] \in ranges
                    /\ wk[w].allocated = get_nonces_required(file_len(wk[w].path))
                    /\ \A v \in Workers \ {w} :
                          wk[v].pc = "send" =>
                             \/ wk[w].start + wk[w].allocated <= wk[v].start
                             \/ wk[v].start + wk[v].allocated <= wk[w].start

\* two workers stream different files at once, one of them in a retry
C3_Witness ==
    /\ proc = "upload" /\ do_encrypt
    /\ reserved >= 3
    /\ \E w, v \in Workers :
          /\ wk[w].pc = "send" /\ wk[v].pc = "send"
          /\ wk[w].path # wk[v].path
          /\ wk[w].attempts > 0

\* C10: once the upload supervisor has observed the interrupt it writes the
\* manifest it holds to the local manifest.json, then aborts, and in between
\* it starts no remote checkpoint: no manifest.json version is deleted or
\* added, and no nonce range is reserved other than by a worker's attempt.
C10_InterruptSkipsCheckpoint ==
    [][/\ (proc = "upload" /\ proc' = "upload" /\ rx' < rx) =>
             (sup.pc = "wait" /\ sup'.pc = "int_save")
       /\ (proc = "upload" /\ sup.pc = "int_save") =>
             /\ proc' = "upload"
             /\ sup' # sup =>
                   /\ sup'.pc = "int_abort"
                   /\ disk_manifest' = [mask |-> mf_mask, files |-> mf_files,
                                        remote_id |-> remote_id]
       /\ (proc = "upload" /\ sup.pc = "int_abort") =>
             (proc' = "aborted" \/ (proc' = "upload" /\ sup' = sup))
       /\ (proc = "upload" /\ sup.pc \in {"int_save", "int_abort"}) =>
             /\ ManifestVersions(remote') = ManifestVersions(remote)
             /\ ranges' # ranges =>
                   \E w \in Workers : wk[w].pc = "reserve" /\ wk'[w].pc = "send"
             /\ proc' = "aborted" => disk_manifest' = disk_manifest
       /\ proc = "aborted" => UNCHANGED <<proc, remote, disk_manifest, disk_alloc>>
      ]_vars

\* a first run is interrupted: the entries made so far are in the local
\* manifest.json and the bucket holds no manifest.json
C10_Witness ==
    /\ proc = "aborted"
    /\ disk_manifest.files # <<>>
    /\ ManifestVersions(remote) = {}

\* the local files of the backup list
LocalFiles == {p \in UpPaths : fs[p] > 0}

\* C8: from any local files, manifest and bucket, after a complete upload
\* run and a complete full-mode clean delete the names in the bucket are
\* manifest.json and the remote names of the local files.
C8_CleanupConvergence ==
    proc = "cleaned" =>
        /\ \A p \in LocalFiles : get_from_path(mf_files, p) # <<>>
        /\ RemoteNames = {MANIFEST_NAME}
                            \cup {get_from_path(mf_files, p)[2] : p \in LocalFiles}

\* C9: in a download run the supervisor, on interrupt, forbids new output
\* files, clears the pending entries and goes to abort() only after it has
\* read open_files as 0; whatever the interleaving with the workers, no
\* worker is then between File::create and the end of its write, so the
\* aborted run leaves no half-written output file.
C9_NoHalfWrittenFile ==
    /\ proc = "aborted" => half = {}
    /\ (proc = "download" /\ sup.pc \in {"clear", "drain", "abort"}) =>
          ~allow_open_file
    /\ (proc = "download" /\ sup.pc \in {"drain", "abort"}) => mf_files = <<>>
    /\ (proc = "download" /\ sup.pc = "abort") =>
          /\ half = {}
          /\ \A w \in Workers : wk[w].pc \notin {"create", "write", "panicked", "close"}
    /\ proc = "download" =>
          \A w \in Workers :
             wk[w].pc \in {"check", "back_off", "create", "write", "panicked",
                           "close"}
                => open_files >= 1

\* the run was aborted after a worker had created and written an output
\* file, and the pending entries are gone
C9_Witness ==
    /\ proc = "aborted"
    /\ \E p \in UpPaths : fs[p] = NowStamp
    /\ mf_files = <<>>

\* C11: the upload supervisor leaves its loop only after it has read
\* busy_threads as 0, every worker having found the queue empty, and has then
\* made one more checkpoint; the manifest that checkpoint wrote holds every
\* entry the workers created and every timestamp they updated in the run.
C11_FinalCheckpoint ==
    (proc = "upload" /\ sup.pc = "exit") =>
        /\ sup.active = 0
        /\ busy_threads = 0
        /\ file_queue = <<>>
        /\ \A w \in Workers : wk[w].pc = "exit"
        /\ disk_manifest.mask = mf_mask
        /\ disk_manifest.files = mf_files
        /\ \A p \in UpPaths :
              fs[p] > 0 =>
                 LET t == get_from_path(disk_manifest.files, p)
                 IN  t # <<>> /\ t[1] >= fs[p]

\* the supervisor has left after a run in which a worker uploaded a file
C11_Witness ==
    /\ proc = "upload" /\ sup.pc = "exit"
    /\ \E p \in UpPaths, r \in ranges : r.n = get_nonces_required(file_len(p))
    /\ \A p \in UpPaths : get_from_path(disk_manifest.files, p) # <<>>

\* C12: nonce_ctr <= nonce_alloc holds in every state between two Config
\* operations: after from_file and after every return of consume_nonces,
\* whatever the amounts consumed, amounts of several pre-allocation blocks
\* included.
C12_CtrWithinAlloc ==
    running =>
        /\ nonce_ctr <= nonce_alloc
        /\ (\E i \in DOMAIN handed : handed[i].epoch = epoch) => nonce_ctr < nonce_alloc

\* C12 witness: the Config has returned from a call that consumed more than
\* two pre-allocation blocks at once
C12_Witness ==
    /\ running
    /\ \E i \in DOMAIN handed :
          /\ handed[i].epoch = epoch
          /\ handed[i].amount > 2 * NONCE_PREALLOC_AMOUNT
    /\ nonce_ctr > 2 * NONCE_PREALLOC_AMOUNT

\* C16: consume_nonces(0) returns the current nonce_ctr, changes neither
\* nonce_ctr nor nonce_alloc and writes nothing to disk, in every ledger
\* state, the state right after from_file included.
C16_ZeroConsumesNothing ==
    [][(/\ Len(handed') = Len(handed) + 1
        /\ handed'[Len(handed')].amount = 0)
          => /\ handed'[Len(handed')].start = nonce_ctr
             /\ nonce_ctr' = nonce_ctr
             /\ nonce_alloc' = nonce_alloc
             /\ disk_alloc' = disk_alloc]_vars

C13_RemoteNameStable ==
    /\ [](mf_on =>
            \A p \in Paths :
               LET t == get_from_path(mf_files, p) IN
               t # <<>> =>
                  \A ts \in Stamps, fresh \in RandomMasks \cup {<<>>} :
                     LET r == get_mask(mf_files, mf_mask, p, ts, fresh) IN
                     /\ r.ret = t
                     /\ r.files = mf_files
                     /\ get_mask(r.files, mf_mask, p, ts, fresh).ret = r.ret)
    /\ [][mf_on =>
            \A p \in Paths :
               LET t == get_from_path(mf_files, p)
                   u == get_from_path(mf_files', p)
               IN  (t # <<>> /\ u # <<>>) => u[2] = t[2]]_vars

\* C13 witness: an entry with a random remote name whose timestamp has been
\* updated after its creation, next to a second entry
C13_Witness ==
    /\ mf_on /\ mf_mask
    /\ Len(mf_files) >= 2
    /\ mf_files[1].timestamp = 1
    /\ mf_files[2].timestamp = MaxStamp
    /\ mf_files[2].mask \in RandomMasks

\* C14: remove_mask(m) removes the entry whose remote name is m whenever the
\* manifest holds one, whatever the number of entries and the order of their
\* paths: get_from_mask(m) is None afterwards and no other entry is removed.
C14_RemoveMaskRemoves ==
    mf_on =>
        \A i \in DOMAIN mf_files :
           LET m == mf_files[i].mask
               after == remove_mask(mf_files, m)
           IN  /\ get_from_mask(after, m) = <<>>
               /\ Len(after) = Len(mf_files) - 1
               /\ \A j \in DOMAIN mf_files :
                     j # i => get_from_mask(after, mf_files[j].mask)
                                 = get_from_mask(mf_files, mf_files[j].mask)

\* the stream of the EncryptingReader as one buffer holding the header and
\* all the frames would receive it
WholeStream ==
    ReadToEnd(wrap(enc_len, rd.key, enc_start, enc_alloc),
              HEADER_LENGTH + (enc_alloc + 1) * BLOCK_LENGTH, <<>>)

\* the bytes returned so far are the first bytes of WholeStream, no read has
\* failed, and the loop ends only when all of WholeStream has been returned
StreamAsWhole ==
    /\ enc_pc \in {"read", "done"}
    /\ RunsEq(enc_out, RNorm(RTake(WholeStream, enc_total)))
    /\ RLen(enc_out) = enc_total
    /\ enc_pc = "done" => enc_total = RLen(WholeStream) /\ enc_total > HEADER_LENGTH

\* C15: for every output buffer of 1 byte or more handed to successive read
\* calls, sizes below 16 bytes and sizes that do not divide BLOCK_LENGTH
\* included, the bytes the EncryptingReader returns, put end to end, are the
\* stream a buffer holding the header and whole frames receives: no byte is
\* dropped, duplicated or reordered, and the stream completes.
C15_AnyBufferSize ==
    (enc_pc # "idle" /\ enc_bufsize >= 1) => StreamAsWhole

\* the least integer not below a / b
CeilDiv(a, b) == (a + b - 1) \div b

\* C18 as stated: for every plaintext length L the encrypted length is
\* 16 + ceil((L + 4) / DATA_LENGTH) * BLOCK_LENGTH, and one BLOCK_LENGTH more
\* than that when L mod DATA_LENGTH is DATA_LENGTH-3, DATA_LENGTH-2 or
\* DATA_LENGTH-1.
C18_AsStated ==
    enc_eof =>
        enc_total = 16 + CeilDiv(enc_len + 4, DATA_LENGTH) * BLOCK_LENGTH
                       + (IF enc_len % DATA_LENGTH >= DATA_LENGTH - 3
                          THEN BLOCK_LENGTH ELSE 0)

\* C18, amended: for every plaintext length L the bytes the reader has
\* returned at its first Ok(0), and the size declared to the store, are
\* 16 + ceil((L + 4) / DATA_LENGTH) * BLOCK_LENGTH; the frame that carries the
\* padding of a plaintext ending one to three bytes short of a frame is
\* already counted by the ceiling.
C18_EncryptedLength ==
    /\ enc_pc # "idle" =>
          get_encrypted_size(enc_len)
             = 16 + CeilDiv(enc_len + 4, DATA_LENGTH) * BLOCK_LENGTH
    /\ enc_eof =>
          enc_total = 16 + CeilDiv(enc_len + 4, DATA_LENGTH) * BLOCK_LENGTH

\* C18 witness: the reader has ended on a plaintext of more than one frame
\* that ends three bytes short of a frame boundary
C18_Witness ==
    /\ enc_eof
    /\ enc_len > DATA_LENGTH
    /\ enc_len % DATA_LENGTH = DATA_LENGTH - 3
    /\ enc_total = 16 + (enc_len \div DATA_LENGTH + 2) * BLOCK_LENGTH

\* the table of encrypted sizes at the padding corners, the entry of
\* 2 * DATA_LENGTH - 1 being a parameter
SizeTable(at_two_frames_less_one) ==
    (0 :> 8208) @@ (1 :> 8208) @@ (DATA_LENGTH - 4 :> 8208)
    @@ (DATA_LENGTH - 3 :> 16400) @@ (DATA_LENGTH - 2 :> 16400)
    @@ (DATA_LENGTH - 1 :> 16400) @@ (DATA_LENGTH :> 16400)
    @@ (DATA_LENGTH + 1 :> 16400)
    @@ (2 * DATA_LENGTH - 1 :> at_two_frames_less_one)
    @@ (2 * DATA_LENGTH :> 24592)

\* the encrypted size of enc_len, declared and returned, is that of table
SizesMatch(table) ==
    (enc_pc # "idle" /\ enc_len \in DOMAIN table) =>
        /\ get_encrypted_size(enc_len) = table[enc_len]
        /\ enc_eof => enc_total = table[enc_len]

\* C19 as stated: for L in {0, 1, DATA_LENGTH-4, DATA_LENGTH-3, DATA_LENGTH-2,
\* DATA_LENGTH-1, DATA_LENGTH, DATA_LENGTH+1, 2*DATA_LENGTH-1, 2*DATA_LENGTH}
\* the encrypted size is {8208, 8208, 8208, 16400, 16400, 16400, 16400, 16400,
\* 16400, 24592}.
C19_AsStated == SizesMatch(SizeTable(16400))

\* C19, amended: the sizes are those of the table except at
\* L = 2*DATA_LENGTH-1, where the size is 24592: two frames hold the
\* plaintext and one zero byte, and the padding takes a third.
C19_CornerSizes == SizesMatch(SizeTable(24592))

\* C19 witness: the reader has ended on a plaintext of 2*DATA_LENGTH-1 bytes
C19_Witness ==
    /\ enc_eof
    /\ enc_len = 2 * DATA_LENGTH - 1
    /\ Len(rd.used) = 3

\* C20 as stated (scenario S3): a plaintext of L = 8175 bytes encrypts to
\* 8208 bytes, header plus one frame, and decrypts to the 8175 bytes.
C20_AsStated ==
    (enc_len = 8175 /\ enc_alloc >= get_nonces_required(enc_len)) =>
        /\ enc_pc # "panic"
        /\ enc_eof => enc_total = 8208
        /\ enc_pc = "done" => RunsEq(wr.target, <<Data(0, 8175)>>)

\* C20, amended: a plaintext of L = 8175 bytes encrypts to 16400 bytes,
\* header plus two frames (the second holds only padding), and decrypting
\* them yields the 8175 original bytes.
C20_ScenarioS3 ==
    (enc_len = 8175 /\ enc_alloc >= get_nonces_required(enc_len)) =>
        /\ enc_pc # "panic"
        /\ enc_eof => enc_total = 16400 /\ Len(rd.used) = 2
        /\ enc_pc = "done" => RunsEq(wr.target, <<Data(0, 8175)>>)

\* C20 witness: the round trip of 8175 bytes has ended
C20_Witness ==
    /\ enc_len = 8175
    /\ enc_pc = "done"
    /\ enc_total = 16400
    /\ RLen(wr.target) = 8175

C22_NoLockAcrossNetwork ==
    \A t \in DOMAIN lk_pc :
        lk_pc[t] \in {"in_upload", "in_delete"} =>
            \A m \in DOMAIN mutex : t \notin mutex[m]

\* the plaintext of the frames of a stream, frame after frame
RECURSIVE FramesPlain(_)
FramesPlain(out) ==
    IF Len(out) = 0 THEN <<>>
    ELSE IF Head(out).k = "c" THEN Head(out).a.pt \o FramesPlain(Tail(out))
    ELSE FramesPlain(Tail(out))

\* C23: when the reader has returned its whole stream for a plaintext of L
\* bytes in k frames, the frames hold k * DATA_LENGTH plaintext bytes, the
\* last four of them are the big-endian u32 k * DATA_LENGTH - L, that number
\* is in [4, DATA_LENGTH + 3], and every byte between the end of the data and
\* those four bytes is zero.
C23_PadLayout ==
    (enc_pc = "done" /\ enc_eof) =>
        LET k     == Len(rd.used)
            total == k * DATA_LENGTH - enc_len
            plain == RNorm(FramesPlain(enc_out))
        IN  /\ total >= 4 /\ total <= DATA_LENGTH + 3
            /\ RLen(plain) = k * DATA_LENGTH
            /\ RunsEq(RNorm(RDrop(plain, enc_len)),
                      RNorm(<<Zeros(total - 4), Bytes(to_be_bytes32(total))>>))

\* a stream read to its end whose padding spans two frames: zero bytes that
\* complete the last data frame, then a frame of padding only
C23_Witness ==
    /\ enc_pc = "done" /\ enc_eof
    /\ rd.pad_extra > 0
    /\ Len(rd.used) = enc_len \div DATA_LENGTH + 2
    /\ RLen(FramesPlain(enc_out)) = Len(rd.used) * DATA_LENGTH

\* the number in the last four plaintext bytes of the last whole frame the
\* writer holds
TailPad ==
    pad_amount_of(RSlice(wr.input_buffer, wr.received - BLOCK_LENGTH,
                         BLOCK_LENGTH)[1].a.pt)

\* the tail the writer accepts: one or two whole frames and a pad_amount of 4
\* or more that the plaintext of those frames can hold
TailInRange ==
    /\ wr.received \in {BLOCK_LENGTH, 2 * BLOCK_LENGTH}
    /\ TailPad >= 4
    /\ TailPad <= (wr.received \div BLOCK_LENGTH) * DATA_LENGTH

\* C24: before the end of input the writer has emitted the plaintext of all
\* whole frames received but the last two (it emits the oldest frame only
\* when three are buffered); at the end of input (flush) it finishes
\* successfully only if one or two whole frames remain buffered and the
\* decoded pad_amount is at least 4 and at most the plaintext bytes of those
\* frames, and it aborts on every other tail.
C24_TailHandling ==
    /\ (enc_pc \in {"write", "flush"} /\ enc_total >= HEADER_LENGTH) =>
          LET frames == (enc_total - HEADER_LENGTH) \div BLOCK_LENGTH IN
          RLen(wr.target) = DATA_LENGTH * (IF frames > 2 THEN frames - 2 ELSE 0)
    /\ enc_pc = "done" => TailInRange
    /\ enc_pc = "panic" => ~TailInRange

\* C25: a worker makes at most 5 upload attempts for a file: an attempt is
\* under way only with fewer than 5 attempts behind it, and every failed
\* attempt that is retried is counted.  When the fifth attempt fails, or the
\* file cannot be opened, the worker is back at the queue with the queue as
\* it was, and a worker leaves only when the queue is empty.
C25_BoundedRetry ==
    [][(proc = "upload" /\ proc' = "upload") =>
        \A w \in Workers :
            /\ wk[w].pc \in {"reserve", "send"} => wk[w].attempts < 5
            /\ (wk[w].pc = "send" /\ wk'[w].pc = "reserve") =>
                   /\ wk'[w].attempts = wk[w].attempts + 1
                   /\ wk'[w].path = wk[w].path
            /\ (wk[w].pc = "reserve" /\ wk'[w].pc = "send") =>
                   /\ wk'[w].attempts = wk[w].attempts
                   /\ wk'[w].path = wk[w].path
            /\ (wk[w].pc \in {"reserve", "send"} /\ wk'[w].pc \notin {"reserve", "send"}) =>
                   /\ wk'[w].pc = "pop"
                   /\ file_queue' = file_queue
                   /\ busy_threads' = busy_threads
            /\ (wk[w].pc # "exit" /\ wk'[w].pc = "exit") =>
                   wk[w].pc = "pop" /\ file_queue = <<>>]_vars

\* the store has failed the five attempts of one file, which is given up
\* (the bucket holds no file), and a worker is at its first attempt for the
\* other file of the list
C25_Witness ==
    /\ proc = "upload"
    /\ fails_left = 1
    /\ \A o \in remote : o.name = MANIFEST_NAME
    /\ \E w \in Workers :
          /\ wk[w].pc = "send"
          /\ wk[w].attempts = 0
          /\ \A v \in Workers \ {w} : wk[v].pc \in {"pop", "exit"}

\* the path has no manifest entry, or the file is newer than its entry
NeedsUpload(path, mtime) ==
    LET t == get_from_path(mf_files, path) IN t = <<>> \/ mtime > t[1]

\* C26: the worker that has looked a path up goes on to upload it exactly
\* when the path has no manifest entry or the file's mtime is greater than
\* the stored timestamp; otherwise it is back at the queue and that step has
\* changed no manifest entry, reserved no nonces and added no file version.
\* A worker stamps an entry, asks for a remote name, reserves nonces or
\* uploads only for a path it has so decided on.
C26_UploadDecision ==
    [][proc' = "upload" =>
        \A w \in Workers :
            /\ (wk[w].pc = "lookup" /\ wk'[w] # wk[w]) =>
                   IF NeedsUpload(wk[w].path, wk[w].mtime)
                   THEN wk'[w] = [wk[w] EXCEPT !.pc = "stamp"]
                   ELSE /\ wk'[w] = WorkerIdle
                        /\ UNCHANGED <<mf_files, nonce_ctr, nonce_alloc, disk_alloc,
                                       ranges, reserved, remote>>
            /\ (wk'[w].pc = "stamp" /\ wk[w].pc # "stamp") =>
                   wk[w].pc = "lookup" /\ NeedsUpload(wk[w].path, wk[w].mtime)
            /\ (wk'[w].pc \in {"mask", "reserve", "send"} /\ wk'[w].pc # wk[w].pc) =>
                   /\ wk[w].pc \in {"stamp", "mask", "reserve", "send"}
                   /\ wk'[w].path = wk[w].path]_vars

\* the run is over: a file older than its entry was passed over, its entry
\* and its one version in the bucket are as they were, and the other file,
\* newer than its entry, has a second version
C26_Witness ==
    /\ proc = "upload" /\ sup.pc = "exit"
    /\ \E p \in UpPaths, q \in UpPaths :
          LET tp == get_from_path(mf_files, p)
              tq == get_from_path(mf_files, q)
          IN  /\ tp # <<>> /\ tq # <<>>
              /\ fs[p] < tp[1]
              /\ Cardinality({o \in remote : o.name = tp[2]}) = 1
              /\ \A o \in remote : o.name = tp[2] => o.ts = tp[1]
              /\ fs[q] = tq[1]
              /\ Cardinality({o \in remote : o.name = tq[2]}) = 2

\* the local file of the entry is missing or older than the entry
NeedsDownload(entry) == fs[entry.path] = 0 \/ fs[entry.path] < entry.timestamp

\* C27: the worker that has popped an entry goes on to fetch it and write it
\* to the entry's path exactly when the local file is missing or its mtime is
\* less than the entry's timestamp; otherwise no worker moves and no local
\* file changes.  A worker starts fetching only an entry it has so decided
\* on (or retries it), and a local file changes only under the worker that
\* holds its path.
C27_DownloadDecision ==
    [][(proc = "download" /\ proc' = "download") =>
        /\ (mf_files' # mf_files /\ sup' = sup) =>
               LET entry == mf_files[Len(mf_files)] IN
               IF NeedsDownload(entry)
               THEN \E w \in Workers :
                       /\ wk[w].pc = "pop"
                       /\ wk'[w].pc = "fetch"
                       /\ wk'[w].path = entry.path
                       /\ wk'[w].attempts = 0
               ELSE wk' = wk /\ fs' = fs /\ half' = half
        /\ \A w \in Workers :
               (wk'[w].pc = "fetch" /\ wk[w].pc = "pop") =>
                   /\ mf_files # <<>>
                   /\ NeedsDownload(mf_files[Len(mf_files)])
        /\ \A w \in Workers :
               (wk'[w].pc = "fetch" /\ wk[w].pc \notin {"pop", "fetch"}) =>
                   /\ wk'[w].path = wk[w].path
                   /\ wk'[w].attempts = wk[w].attempts + 1
        /\ \A q \in UpPaths :
               fs'[q] # fs[q] =>
                   \E w \in Workers : wk[w].pc = "create" /\ wk[w].path = q]_vars

\* the run is over with no failure and no interrupt: one local file, not
\* older than its entry, is as it was, and the other one has been written
C27_Witness ==
    /\ proc = "download"
    /\ mf_files = <<>>
    /\ \A w \in Workers : wk[w].pc = "exit"
    /\ fails_left = MaxFailures /\ rx = 0 /\ sup.pc = "wait"
    /\ \E p \in UpPaths, q \in UpPaths :
          /\ fs[p] > 0 /\ fs[p] <= MaxStamp
          /\ fs[q] = NowStamp /\ q \notin half

\* C28: when the download of the manifest has succeeded and a later step
\* fails (the new manifest.json cannot be created, the copy cannot be
\* written or decrypted, or it does not parse), manifest.json holds the
\* previous manifest again and that manifest is the one used; the command
\* ends without a manifest only if neither the downloaded copy nor the
\* previous manifest.json is usable.
C28_RestoreOnFailure ==
    LET downloaded == response.kind = "manifest"
        previous   == from_file(rt_previous)
    IN  (rt_previous.exists /\ response # <<>> /\ response.ok) =>
        /\ rt_pc \in {"returned", "panicked"} =>
               /\ manifest_json = rt_previous
               /\ ~downloaded /\ ~previous.ok
        /\ (rt_pc = "loaded" /\ manifest_json # FileOf(response.m)) =>
               /\ manifest_json = rt_previous
               /\ previous.ok /\ manifest = previous.m

\* the run is without --force and b2_get_file_info failed or told of a
\* remote manifest modified after the local manifest.json
RecencyRefused ==
    /\ proc = "clean"
    /\ ~cl.force
    /\ ~cl.info.ok \/ cl.info.modified > cl.modified_local

\* C29: without --force, when the remote manifest's modified time exceeds
\* that of the local manifest.json, or its info cannot be fetched, no step
\* of clean removes a manifest entry, rewrites manifest.json, hides or
\* deletes a remote object, reserves nonces or uploads a manifest: the run
\* only goes from its check to its return.
C29_RecencyGuardStops ==
    [][RecencyRefused =>
          /\ UNCHANGED <<mf_files, disk_manifest, remote, remote_id, nonce_ctr,
                         nonce_alloc, disk_alloc, ranges, reserved>>
          /\ cl'.hidden = <<>> /\ cl'.removed = <<>>
          /\ cl'.pc \in {"check", "returned"}]_vars

\* a run refused for a newer remote manifest has returned while the
\* manifest still holds an entry of a file that no longer exists
C29_Witness ==
    /\ RecencyRefused
    /\ cl.info.ok
    /\ cl.mode = "hide"
    /\ cl.pc = "returned"
    /\ \E i \in DOMAIN mf_files : fs[mf_files[i].path] = 0

\* how often x occurs in the sequence q
Occurrences(q, x) == Cardinality({i \in DOMAIN q : q[i] = x})

\* C30: when a fast clean of a manifest with masked names has ended, every
\* name was hidden as often as entries with that remote name were removed
\* by the prune: one hide per removed entry, for its mask, and no other
\* hide.
C30_FastHidesRemoved ==
    (proc = "cleaned" /\ cl.fast /\ mf_mask) =>
        \A x \in {cl.hidden[i] : i \in DOMAIN cl.hidden}
                 \cup {cl.removed[i].mask : i \in DOMAIN cl.removed} :
            Occurrences(cl.hidden, x) = Occurrences(MasksOf(cl.removed), x)

\* a listed object that full mode is to hide or delete: it is not
\* manifest.json and no entry of the pruned manifest has its name as mask
SweepTarget(o) ==
    /\ o.name # MANIFEST_NAME
    /\ \A i \in DOMAIN mf_files : mf_files[i].mask # o.name

\* how often the sweep has hidden or deleted the listed object o
SweepActed(o) ==
    IF cl.mode = "hide" THEN Occurrences(cl.hidden, o.name)
    ELSE IF o \in remote THEN 0 ELSE 1

RelativeTo(dir, p) == SubSeq(p, Len(dir) + 2, Len(p))

\* C32: when a backup list of one rule has been evaluated, a file below the
\* rule's directory is in the list if and only if no filter of the rule
\* matches its path relative to that directory.
C32_FilterRelativePath ==
    (fl # <<>> /\ fl.pc = "returned" /\ Len(fl.rules) = 1) =>
        \A p \in fl.tree :
            Below(fl.rules[1].dir, p) =>
               ((\E i \in DOMAIN fl.files : fl.files[i] = p)
                  <=> ~is_match(fl.rules[1].filters,
                                RelativeTo(fl.rules[1].dir, p)))

\* C33: with a path twice in the queue of an upload run, the bucket never
\* holds two versions of a file's remote name with the same modified time:
\* each upload of the run stores a version with the modified time of the
\* file, which the run does not change, so no path is uploaded twice.
C33_DuplicateUploadedOnce ==
    proc = "upload" =>
        \A o \in remote : \A v \in remote :
            (o.name = v.name /\ o.name # MANIFEST_NAME /\ o.ts = v.ts) => o = v

\* C34: in an upload run that starts from an empty manifest, whatever
\* manifest.json holds after a to_file of the run (periodic or final
\* checkpoint, interrupt save), each of its entries whose file no worker
\* is still busy with has in the bucket a version under its remote name
\* with the entry's timestamp as modified time: the upload the timestamp
\* stands for has succeeded.
C34_StampedMeansUploaded ==
    \A i \in DOMAIN disk_manifest.files :
        LET e == disk_manifest.files[i] IN
        (\A w \in DOMAIN wk : wk[w].path # e.path) =>
            \E o \in remote : o.name = e.mask /\ o.ts = e.timestamp

\* C35: in a download run no worker is about to fetch an entry again whose
\* file it has already fetched and written completely in this run: after
\* the first successful fetch-and-write the worker is done with the entry.
C35_WrittenOnce ==
    proc = "download" =>
        \A w \in Workers :
            ~(/\ wk[w].pc = "fetch"
              /\ wk[w].attempts > 0
              /\ fs[wk[w].path] = NowStamp
              /\ wk[w].path \notin half)

\* C36: in an upload run that starts without a remote manifest, once a
\* checkpoint has stored the id of the manifest it uploaded, the bucket
\* holds an object named manifest.json at every later point of the run and
\* after an abort.
C36_ManifestStaysRemote ==
    (proc \in {"upload", "aborted"} /\ disk_manifest.remote_id > 0) =>
        MANIFEST_NAME \in RemoteNames

\* C37: an upload run whose threads keep running and whose calls to the
\* store all return comes to the point where busy_threads is 0 and the
\* supervisor has made the final checkpoint and left its loop.
C37_UploadTerminates ==
    <>(busy_threads = 0 /\ sup.pc = "exit")

\* C38: at every point of the round trip the bytes the DecryptingWriter
\* has given to its target are the first bytes of the plaintext, and
\* before the end of input is signalled the writer has written nothing
\* unless it still holds the last two frames it received: no byte of a
\* frame that may hold padding has been written.
C38_TargetIsPrefix ==
    enc_pc # "idle" =>
        LET n == RLen(wr.target) IN
        /\ n <= enc_len
        /\ n > 0 => RunsEq(wr.target, RNorm(<<Data(0, n)>>))
        /\ (wr.state = "Data" /\ n > 0) => wr.received >= 2 * BLOCK_LENGTH

\* the writer has written whole frames of a plaintext that ends inside the
\* next frame, and the input has not ended
C38_Witness ==
    /\ enc_pc = "read" /\ ~enc_eof
    /\ wr.state = "Data"
    /\ RLen(wr.target) >= DATA_LENGTH
    /\ enc_len - RLen(wr.target) < DATA_LENGTH
    /\ enc_len > RLen(wr.target)

\* C39: in a download run open_files equals the number of workers that are
\* between their open_files.fetch_add(1) and the matching fetch_sub(1).
C39_OpenFilesCount ==
    proc = "download" =>
        open_files = Cardinality({w \in Workers :
                         wk[w].pc \in {"check", "back_off", "create", "write",
                                       "close"}})

\* C40: when the inner reader returns an I/O error in mid-stream, the
\* EncryptingReader does not end its stream as at the end of the input: it
\* never returns Ok(0) after a stream that the DecryptingWriter accepts as
\* complete while bytes of the input were never read.
C40_ReadErrorReported ==
    (rd.inner_err # <<>> /\ rd.inner_err[1] < rd.inner_len) =>
        ~(/\ enc_pc = "done" /\ enc_eof
          /\ RLen(wr.target) < rd.inner_len)


====
